---- MODULE Spec2Model ----
(***************************************************************************)
(* A model of dossierhelper: the legacy keyword classifier (classifier.py), *)
(* the pattern classifier and scorer (config.py) and the three-pass         *)
(* pipeline (pipeline.py).                                                  *)
(*                                                                          *)
(* Python strings are TLA+ strings; TLC evaluates Len, \o and SubSeq on     *)
(* them, so a character is the one-character string SubSeq(s, i, i).        *)
(* Python floats are fixed-point integers counted in hundredths.            *)
(***************************************************************************)
EXTENDS Integers, Sequences, FiniteSets, TLC

VARIABLES
    \* ---- legacy classifier run (classifier.classify) ----
    lpc,        \* "input" before the call, "done" after it
    lname,      \* path.name of the classified document
    lmeta,      \* its metadata: a sequence of values [isStr, s]
    ltext,      \* its text, or None
    lresult,    \* what classify returned: <<result>>, or <<>> for None
    \* ---- one run of DossierPipeline.run_all ----
    pc,             \* "start", "pass2", "pass3", "done", or "raised"
    cfgId,          \* which of Configs the pipeline was built with
    years,          \* the years argument: a set of years, {} for None
    apply_tags,     \* the apply_tags argument
    fsFiles,        \* the files the walk of the search roots yields (ids of Docs)
    driveFiles,     \* the files list_files yields for the enabled drive (ids of Docs)
    artifacts,      \* the list pass 1 returned: records mutated in place by pass 2
    idx,            \* pass 2: index of the artifact in work (enumerate, start=1)
    step,           \* pass 2: the sub-step the artifact in work is at
    enriched,       \* pass 2: the list being returned (indices into artifacts)
    bucket_totals,  \* pass 2: the Counter of buckets
    outcome,        \* pass 2: per artifact, how the loop body was left: "pending",
                    \* "completed" (end of the try block), "error" (the except
                    \* clause) or "no content" (the continue of line 327)
    tempFiles,      \* the temporary files that exist on disk (by artifact index)
    events,         \* pass 2: per artifact, the file_progress_step of the progress
                    \* events the listener was given for it, in order
    report,         \* the data rows of the CSV file pass 3 wrote
    result,         \* <<RunAllResult>> once run_all returned, else <<>>
    raised,         \* the exception run_all propagated, else None
    listener,       \* the progress_callback of the run: "none" (None), "returns"
                    \* (a callable that returns) or "raises" (one that can raise)
    stream,         \* the stages of the events the listener was given, in order,
                    \* a run of events of one stage being entered once
    elapsed,        \* pass 2: perf_counter() - start_time, in seconds
    completion,     \* pass 2: per artifact, <<the fields of its completion
                    \* event>> (lines 382-398), <<>> while it has none
    tag_writes,     \* pass 2: the artifacts write_finder_tags was called for
    \* ---- the window (gui.Application): the UI thread and its workers ----
    clicks,            \* how many buttons were clicked so far
    pass_one_results,  \* the attribute _pass_one_results: <<>> while it is not
                       \* set, else <<the worker whose result it holds>>
    pass_two_results,  \* the attribute _pass_two_results, likewise
    workers,           \* the threads _run_async started, in order: [stage,
                       \* running, sent (progress events its pass has sent)]
    after_calls,       \* the callbacks scheduled with after(0, ...), in order
    log_queue,         \* the Queue log_queue: its entries, oldest first; an entry
                       \* is named by its number in the order of the puts
    put_count,         \* how many entries were put on log_queue so far
    progress_output,   \* the entries _append_log wrote to the text widget
    polling,           \* the UI thread is inside the loop of _poll_log_queue
    dialogs,           \* the titles of the warnings shown (showwarning), in order
    config,            \* self.config and self.pipeline: the number of the
                       \* configuration loaded (1 is the one loaded at startup)
    \* ---- one call of pass_one_surface_scan without a year filter, step by step ----
    spc,            \* "roots", "drives", "return", "done" or "raised"
    spos,           \* the search root, then the drive, the loop is at
    root_exists,    \* per search root: root.exists()
    dir_status,     \* per directory of the walks: "ok", "unlistable" (scandir is
                    \* denied), "unsearchable" (stat of its entries is denied) or
                    \* "raises" (rglob raises PermissionError on reaching it)
    drive_enabled,  \* per configured drive: drive_config.enabled
    fetch_fails,    \* the page fetches that raise: <<drive, folder id, page>>
    recursive,      \* the recursive argument list_files is called with
    found,          \* the local list artifacts of pass 1
    sraised,        \* the exception pass 1 propagated, else None
    \* ---- a rule set classifies a document, before and after a pattern is added ----
    rpc,            \* "input", "classified", "extended" or "done"
    rules,          \* the categories of the configuration, as Categories
    rdoc,           \* the document classified (index into Docs)
    radded,         \* the pattern to add: [cat, sub, pattern]
    rresults        \* what classify_text returned, call by call

legacyVars == <<lpc, lname, lmeta, ltext, lresult>>

guiVars == <<clicks, pass_one_results, pass_two_results, workers, after_calls, log_queue,
             put_count, progress_output, polling, dialogs, config>>

pipeVars == <<pc, cfgId, years, apply_tags, fsFiles, driveFiles, artifacts, idx, step,
              enriched, bucket_totals, outcome, tempFiles, events, report, result, raised,
              listener, stream, elapsed, completion, tag_writes>>

scanVars == <<spc, spos, root_exists, dir_status, drive_enabled, fetch_fails, recursive,
              found, sraised>>

rulesVars == <<rpc, rules, rdoc, radded, rresults>>

vars == <<legacyVars, pipeVars, guiVars, scanVars, rulesVars>>

\* what a step of the pipeline, of the legacy classifier, of the window leaves alone
notPipeVars == <<legacyVars, guiVars, scanVars, rulesVars>>
notLegacyVars == <<pipeVars, guiVars, scanVars, rulesVars>>
notGuiVars == <<legacyVars, pipeVars, scanVars, rulesVars>>
notScanVars == <<legacyVars, pipeVars, guiVars, rulesVars>>
notRulesVars == <<legacyVars, pipeVars, guiVars, scanVars>>

None == "None"

(***************************************************************************)
(* String helpers (the str methods the code calls).                         *)
(***************************************************************************)
CharAt(s, i) == SubSeq(s, i, i)

UpperAlpha == "ABCDEFGHIJKLMNOPQRSTUVWXYZ"
LowerAlpha == "abcdefghijklmnopqrstuvwxyz"

\* str.lower() on one character
LowerChar(c) ==
    IF \E i \in 1..Len(UpperAlpha) : CharAt(UpperAlpha, i) = c
    THEN CharAt(LowerAlpha, CHOOSE i \in 1..Len(UpperAlpha) : CharAt(UpperAlpha, i) = c)
    ELSE c

\* str.lower() on s[lo..hi], by halves
RECURSIVE LowerRange(_, _, _)
LowerRange(s, lo, hi) ==
    IF lo > hi THEN ""
    ELSE IF lo = hi THEN LowerChar(CharAt(s, lo))
    ELSE LET mid == (lo + hi) \div 2
         IN  LowerRange(s, lo, mid) \o LowerRange(s, mid + 1, hi)

\* str.lower()
Lower(s) == LowerRange(s, 1, Len(s))

\* the characters str.split() and str.strip() treat as whitespace
Whitespace == {" ", "\t", "\n", "\r"}

IsSpace(c) == c \in Whitespace

\* str.strip()
Strip(s) ==
    LET keep == {i \in 1..Len(s) : ~IsSpace(CharAt(s, i))}
    IN  IF keep = {} THEN ""
        ELSE LET lo == CHOOSE i \in keep : \A j \in keep : i <= j
                 hi == CHOOSE i \in keep : \A j \in keep : i >= j
             IN  SubSeq(s, lo, hi)

\* str.replace(old, new) for a one-character old
RECURSIVE ReplaceRange(_, _, _, _, _)
ReplaceRange(s, old, new, lo, hi) ==
    IF lo > hi THEN ""
    ELSE IF lo = hi THEN (IF CharAt(s, lo) = old THEN new ELSE CharAt(s, lo))
    ELSE LET mid == (lo + hi) \div 2
         IN  ReplaceRange(s, old, new, lo, mid) \o ReplaceRange(s, old, new, mid + 1, hi)

ReplaceChar(s, old, new) == ReplaceRange(s, old, new, 1, Len(s))

\* str.split() with no argument: the maximal runs of non-whitespace (as a set:
\* the caller only adds each part to a set)
Split(s) ==
    LET n == Len(s)
        starts == {i \in 1..n : /\ ~IsSpace(CharAt(s, i))
                                /\ (i = 1 \/ IsSpace(CharAt(s, i - 1)))}
        EndOf(i) == CHOOSE j \in i..n :
                        /\ \A k \in i..j : ~IsSpace(CharAt(s, k))
                        /\ (j = n \/ IsSpace(CharAt(s, j + 1)))
    IN  {SubSeq(s, i, EndOf(i)) : i \in starts}

\* str.startswith(prefix)
StartsWith(s, prefix) ==
    /\ Len(prefix) <= Len(s)
    /\ SubSeq(s, 1, Len(prefix)) = prefix

\* needle in haystack
Contains(hay, needle) ==
    \E i \in 1..(Len(hay) - Len(needle) + 1) :
        SubSeq(hay, i, i + Len(needle) - 1) = needle

\* s[:n]
Prefix(s, n) == IF Len(s) <= n THEN s ELSE SubSeq(s, 1, n)

\* the index of the last "." of a name, 0 when it has none (str.rfind + 1)
LastDot(name) ==
    LET dots == {i \in 1..Len(name) : CharAt(name, i) = "."}
    IN  IF dots = {} THEN 0 ELSE CHOOSE i \in dots : \A j \in dots : i >= j

\* Path.suffix: from the last dot, unless the dot leads or ends the name
Suffix(name) ==
    LET d == LastDot(name)
    IN  IF 1 < d /\ d < Len(name) THEN SubSeq(name, d, Len(name)) ELSE ""

\* Path.stem: the name without its suffix
Stem(name) ==
    LET d == LastDot(name)
    IN  IF 1 < d /\ d < Len(name) THEN SubSeq(name, 1, d - 1) ELSE name

(***************************************************************************)
(* classifier.py: the legacy AND-of-keywords classifier.                    *)
(***************************************************************************)
Result(cat, sub, dest, why) ==
    [category |-> cat, subcategory |-> sub, portfolio_destination |-> dest, rationale |-> why]

\* _RULES, in declaration order (the arrow of the destinations is written ->)
RULES == <<
    << <<"concert program", "ensemble">>,
       Result("Teaching", "Ensemble Leadership", "Primary PDF -> Teaching Evidence", "Ensemble programs demonstrate instructional leadership.") >>,
    << <<"student assessment", "quiz", "evaluation">>,
       Result("Teaching", "Course Assessment", "Primary PDF -> Teaching Evidence", "Student feedback shows teaching effectiveness.") >>,
    << <<"repertoire feedback", "pedagogy">>,
       Result("Teaching", "Course Material", "Primary PDF -> Teaching Evidence", "Pedagogical material documents learning outcomes.") >>,
    << <<"member info", "roster">>,
       Result("Service", "Recruiting (admin evidence)", "Primary PDF -> Service Evidence", "Recruitment management is classified as service.") >>,
    << <<"recruiting email", "prospect">>,
       Result("Service", "Recruiting (outreach)", "Primary PDF -> Service Evidence", "Outreach recruiting is a service activity.") >>,
    << <<"vendor order", "invoice", "receipt">>,
       Result("Service", "Logistics / Ops", "Appendices", "Operational logistics go to appendices.") >>,
    << <<"leadership application", "mentorship">>,
       Result("Teaching", "Mentorship / Leadership Dev.", "Primary PDF -> Teaching Evidence", "Leadership development counts as teaching.") >>,
    << <<"drill design", "musx", "sib">>,
       Result("Scholarly / Creative", "Creative Output", "Primary PDF -> Scholarship Evidence", "Design files are creative scholarship.") >>,
    << <<"composition", "arrangement">>,
       Result("Scholarly / Creative", "Creative Output", "Primary PDF -> Scholarship Evidence", "Compositions qualify as scholarship.") >>,
    << <<"literature review", "bib">>,
       Result("Scholarly / Creative", "Research Prep", "Primary PDF -> Scholarship Evidence", "Lit reviews prepare scholarship.") >>,
    << <<"recording", "publicity">>,
       Result("Scholarly / Creative", "Creative Output", "Primary PDF -> Scholarship Evidence", "Recordings promote creative work.") >>,
    << <<"community performance", "pep band", "game">>,
       Result("Service", "University Visibility", "Primary PDF -> Service Evidence", "Campus performances expand visibility.") >>,
    << <<"clinic", "adjudicat">>,
       Result("Service", "Professional Engagement", "Primary PDF -> Service Evidence", "Clinics and adjudication are service.") >>,
    << <<"advising load", "advisee">>,
       Result("Advising", "Formal Advising", "Primary PDF -> Advising Summary", "Advising reports document workload.") >>,
    << <<"orientation", "grad plan">>,
       Result("Advising", "Advising Artifacts", "Primary PDF -> Advising Evidence", "Advising materials support advising.") >>,
    << <<"annual evaluation">>,
       Result("Form", "Annual Eval", "SummaryTable (in Primary PDF)", "Annual evaluations are required forms.") >>,
    << <<"notice of intent", "cover sheet">>,
       Result("Form", "Cover Sheet", "Form (separate PDF)", "Cover sheets belong in the form section.") >>
>>

\* normalize(text)
normalize(text) == Strip(Lower(text))

\* _tokenize(text): the set of parts of the normalized text, split on
\* whitespace after "_" and "-" have become spaces
tokenize(text) ==
    Split(ReplaceChar(ReplaceChar(normalize(text), "_", " "), "-", " "))

\* text[:500]
TextPrefixLen == 500

\* the metadata values that are strings: str(value) ... if isinstance(value, str)
MetaStrings(metadata) ==
    LET sel == SelectSeq(metadata, LAMBDA v : v.isStr)
    IN  [i \in 1..Len(sel) |-> sel[i].s]

\* the haystacks of classify: stem, suffix, the string metadata values, text[:500]
Haystacks(name, metadata, text) ==
    <<Stem(name), Suffix(name)>>
    \o (IF Len(metadata) > 0 THEN MetaStrings(metadata) ELSE <<>>)
    \o (IF text /= None /\ text /= "" THEN <<Prefix(text, TextPrefixLen)>> ELSE <<>>)

\* tokens: the union of the tokens of every haystack
Tokens(name, metadata, text) ==
    LET hs == Haystacks(name, metadata, text)
    IN  UNION {tokenize(hs[i]) : i \in 1..Len(hs)}

\* all(any(token.startswith(keyword) for token in tokens) for keyword in keywords)
RuleMatches(keywords, tokens) ==
    \A k \in 1..Len(keywords) : \E t \in tokens : StartsWith(t, keywords[k])

\* the for loop over _RULES: the first rule that matches returns, else None
RECURSIVE classifyFrom(_, _)
classifyFrom(tokens, r) ==
    IF r > Len(RULES) THEN <<>>
    ELSE IF RuleMatches(RULES[r][1], tokens) THEN <<RULES[r][2]>>
    ELSE classifyFrom(tokens, r + 1)

\* a slip in the rule test: any keyword instead of every keyword
classify_anyKeyword(name, metadata, text) ==
    LET tokens == Tokens(name, metadata, text)
        hit == {r \in 1..Len(RULES) :
                   \E k \in 1..Len(RULES[r][1]) : \E t \in tokens : StartsWith(t, RULES[r][1][k])}
    IN  IF hit = {} THEN <<>>
        ELSE <<RULES[CHOOSE r \in hit : \A q \in hit : r <= q][2]>>

\* classify(path, metadata=..., text=...)
classify(name, metadata, text) == classifyFrom(Tokens(name, metadata, text), 1)

(***************************************************************************)
(* config.py: the pattern rule set, classify_text and calculate_score.      *)
(* Floats (weights, scores) are counted in hundredths: 2.0 is 200.          *)
(***************************************************************************)
Hundredths == 100

\* category_weights.get(category_name, 1.0)
DefaultWeight == 100

Rule(n, pats) == [name |-> n, patterns |-> pats]

\* AppConfig.categories: category -> subcategory -> CategoryRule, in the
\* declaration order of the configuration (a dict keeps insertion order)
Categories == <<
    [name |-> "Teaching",
     subs |-> << Rule("Syllabi", <<"syllabus", "course outline">>),
                 Rule("Assignments", <<"assignment", "homework">>) >>],
    [name |-> "Service",
     subs |-> << Rule("Committees", <<"committee">>),
                 Rule("Reviewing", <<"peer review", "referee">>),
                 Rule("Outreach", <<"outreach">>) >>],
    [name |-> "Scholarship",
     subs |-> << Rule("Publications", <<"journal", "proceedings">>) >>]
>>

\* the scoring, tagging and metadata sections of the configurations checked
\* (author is metadata["author"] of the configuration when it is a string)
Configs == <<
    \* the defaults of ScoringConfig and MacOSConfig
    [category_weights |-> <<>>, per_hit_points |-> 1, cap_per_file |-> 25,
     bonus_keywords |-> <<>>, enable_finder_tags |-> TRUE, author |-> None],
    \* Teaching weighted 2.0 against Service 1.0, a bonus keyword
    [category_weights |-> [Teaching |-> 200, Service |-> 100], per_hit_points |-> 1,
     cap_per_file |-> 25, bonus_keywords |-> << [keyword |-> "Tenure", points |-> 5] >>,
     enable_finder_tags |-> TRUE, author |-> "A. Bajorek"],
    \* a low cap that the hits exceed
    [category_weights |-> [Scholarship |-> 150], per_hit_points |-> 3, cap_per_file |-> 2,
     bonus_keywords |-> <<>>, enable_finder_tags |-> FALSE, author |-> "A. Bajorek"],
    \* a category switched off by weight 0, a keyword that takes points away
    [category_weights |-> [Teaching |-> 0], per_hit_points |-> 1, cap_per_file |-> 25,
     bonus_keywords |-> << [keyword |-> "draft", points |-> -5] >>,
     enable_finder_tags |-> TRUE, author |-> None]
>>

\* a slip: every pattern must be found
matches_allPatterns(rule, text) ==
    \A p \in 1..Len(rule.patterns) : Contains(Lower(text), Lower(rule.patterns[p]))

\* CategoryRule.matches(text): any compiled pattern (re.IGNORECASE) is found;
\* the patterns are literal strings
matches(rule, text) ==
    \E p \in 1..Len(rule.patterns) : Contains(Lower(text), Lower(rule.patterns[p]))

\* f"{text} {filename}"
FullText(text, filename) == text \o " " \o filename

\* the names of the subcategories of a category whose rule matches, in order
MatchedSubs(cat, full_text) ==
    LET sel == SelectSeq(cat.subs, LAMBDA r : matches(r, full_text))
    IN  [i \in 1..Len(sel) |-> sel[i].name]

\* AppConfig.classify_text(text, filename): the categories with a match, in
\* declaration order, each with the names of its matched subcategories
classify_text(text, filename) ==
    LET full_text == FullText(text, filename)
        all == [c \in 1..Len(Categories) |->
                   [name |-> Categories[c].name, subs |-> MatchedSubs(Categories[c], full_text)]]
    IN  SelectSeq(all, LAMBDA e : Len(e.subs) > 0)

weight_of(cfg, category_name) ==
    IF category_name \in DOMAIN cfg.category_weights
    THEN cfg.category_weights[category_name]
    ELSE DefaultWeight

RECURSIVE SumSeq(_)
SumSeq(q) == IF q = <<>> THEN 0 ELSE Head(q) + SumSeq(Tail(q))

Min(a, b) == IF a <= b THEN a ELSE b

\* AppConfig.calculate_score(text, filename, categories), in hundredths
calculate_score(cfg, text, filename, categories) ==
    LET full_text == Lower(FullText(text, filename))
        base == SumSeq([c \in 1..Len(categories) |->
                    Len(categories[c].subs) * cfg.per_hit_points
                        * weight_of(cfg, categories[c].name)])
        bonus == SumSeq([b \in 1..Len(cfg.bonus_keywords) |->
                    IF Contains(full_text, Lower(cfg.bonus_keywords[b].keyword))
                    THEN cfg.bonus_keywords[b].points * Hundredths
                    ELSE 0])
    IN  Min(base + bonus, cfg.cap_per_file * Hundredths)

(***************************************************************************)
(* pipeline.py: _classify_artifact.                                         *)
(***************************************************************************)
Unclassified == "Unclassified"

\* the loop that picks the primary category: a category replaces the current
\* one only when its weighted score is strictly greater
RECURSIVE PrimaryFrom(_, _, _, _, _)
PrimaryFrom(cfg, categories, c, primary_category, max_weighted_score) ==
    IF c > Len(categories) THEN primary_category
    ELSE LET weighted_score == Len(categories[c].subs) * weight_of(cfg, categories[c].name)
         IN  IF weighted_score > max_weighted_score
             THEN PrimaryFrom(cfg, categories, c + 1, categories[c].name, weighted_score)
             ELSE PrimaryFrom(cfg, categories, c + 1, primary_category, max_weighted_score)

\* a slip: on a tie the later category wins (>= for >)
RECURSIVE PrimaryFrom_lastWins(_, _, _, _, _)
PrimaryFrom_lastWins(cfg, categories, c, primary_category, max_weighted_score) ==
    IF c > Len(categories) THEN primary_category
    ELSE LET weighted_score == Len(categories[c].subs) * weight_of(cfg, categories[c].name)
         IN  IF weighted_score >= max_weighted_score
             THEN PrimaryFrom_lastWins(cfg, categories, c + 1, categories[c].name, weighted_score)
             ELSE PrimaryFrom_lastWins(cfg, categories, c + 1, primary_category, max_weighted_score)

\* _classify_artifact(path, text, metadata): <<>> for None, else the
\* EnhancedClassificationResult (its rationale, a rendering of the other
\* fields, is left out)
classify_artifact(cfg, path, text) ==
    LET categories == classify_text(text, path)
    IN  IF Len(categories) = 0 THEN <<>>
        ELSE << [categories |-> categories,
                 primary_category |-> PrimaryFrom(cfg, categories, 1, Unclassified, 0),
                 score |-> calculate_score(cfg, text, path, categories)] >>

(***************************************************************************)
(* The documents of the checked runs.  A local document is named by its     *)
(* path; a remote one by its GDriveFile (name, modifiedTime).  year is the  *)
(* creation year of a local file and the modification year of a remote one  *)
(* (0 when the modified time does not start with a year); text is what      *)
(* extract_text returns for the file.                                       *)
(***************************************************************************)
Docs == <<
    [path |-> "/home/u/dossier/syllabus_fall.pdf", is_gdrive |-> FALSE, gname |-> "",
     modified_time |-> "", year |-> 2022,
     text |-> "Course Syllabus and homework policy (draft) HoursSpent: 2.5 total"],
    [path |-> "/home/u/dossier/service_log.docx", is_gdrive |-> FALSE, gname |-> "",
     modified_time |-> "", year |-> 2021,
     text |-> "Committee minutes; Peer Review; outreach event; syllabus HoursSpent: 0"],
    [path |-> "/home/u/dossier/photo.txt", is_gdrive |-> FALSE, gname |-> "",
     modified_time |-> "", year |-> 2023,
     text |-> ""],
    [path |-> "/home/u/dossier/.git/notes.txt", is_gdrive |-> FALSE, gname |-> "",
     modified_time |-> "", year |-> 2022,
     text |-> "homework"],
    [path |-> "gdrive://work/Journal Article.pdf", is_gdrive |-> TRUE, gname |-> "Journal Article.pdf",
     modified_time |-> "2022-05-01T10:00:00.000Z", year |-> 2022,
     text |-> "Proceedings paper for the tenure file HoursSpent: many"],
    [path |-> "gdrive://work/untitled", is_gdrive |-> TRUE, gname |-> "untitled",
     modified_time |-> "05/01/2022 10:00", year |-> 0,
     text |-> ""]
>>

LocalIds == {d \in 1..Len(Docs) : ~Docs[d].is_gdrive}
RemoteIds == {d \in 1..Len(Docs) : Docs[d].is_gdrive}

\* FileFilters of the configuration (the fallback configuration's lists)
include_extensions == {".pdf", ".docx", ".txt"}
exclude_dirs == {".git", "node_modules", "__pycache__", ".venv"}

\* Path.name: what follows the last "/"
BaseName(path) ==
    LET slashes == {i \in 1..Len(path) : CharAt(path, i) = "/"}
    IN  IF slashes = {} THEN path
        ELSE SubSeq(path, (CHOOSE i \in slashes : \A j \in slashes : i >= j) + 1, Len(path))

\* Path.parts without the root: the runs between "/"
Parts(path) ==
    LET n == Len(path)
        IsSep(i) == CharAt(path, i) = "/"
        starts == {i \in 1..n : ~IsSep(i) /\ (i = 1 \/ IsSep(i - 1))}
        EndOf(i) == CHOOSE j \in i..n :
                        /\ \A k \in i..j : ~IsSep(k)
                        /\ (j = n \/ IsSep(j + 1))
    IN  {SubSeq(path, i, EndOf(i)) : i \in starts}

\* AppConfig.should_scan_path(path)
should_scan_path(path) == \A excluded \in exclude_dirs : excluded \notin Parts(path)

\* AppConfig.should_process_file(file_path)
should_process_file(path) ==
    IF include_extensions = {} THEN TRUE
    ELSE Lower(Suffix(BaseName(path))) \in include_extensions

\* should_scan_path and should_process_file of each document, tabulated
PassesFilters ==
    [d \in 1..Len(Docs) |-> should_scan_path(Docs[d].path) /\ should_process_file(Docs[d].path)]

(***************************************************************************)
(* Number parsing and formatting.                                           *)
(***************************************************************************)
Digits == "0123456789"

IsDigit(c) == \E i \in 1..Len(Digits) : CharAt(Digits, i) = c

DigitVal(c) == (CHOOSE i \in 1..Len(Digits) : CharAt(Digits, i) = c) - 1

AllDigits(s) == Len(s) > 0 /\ \A i \in 1..Len(s) : IsDigit(CharAt(s, i))

RECURSIVE DigitsVal(_)
DigitsVal(s) ==
    IF s = "" THEN 0
    ELSE DigitsVal(SubSeq(s, 1, Len(s) - 1)) * 10 + DigitVal(CharAt(s, Len(s)))

RECURSIVE NatStr(_)
NatStr(n) ==
    IF n < 10 THEN CharAt(Digits, n + 1)
    ELSE NatStr(n \div 10) \o CharAt(Digits, (n % 10) + 1)

\* f"{x:.2f}" of a float counted in hundredths
Fmt2(h) ==
    LET a == IF h < 0 THEN -h ELSE h
    IN  (IF h < 0 THEN "-" ELSE "")
        \o NatStr(a \div Hundredths) \o "."
        \o NatStr((a % Hundredths) \div 10) \o NatStr(a % 10)

(***************************************************************************)
(* pipeline.py: pass 1.                                                     *)
(***************************************************************************)
\* a bound on the documents of one run
MaxDocs == 3

RECURSIVE DistinctSeqs(_, _)
\* the sequences of n distinct elements of S
DistinctSeqs(S, n) ==
    IF n = 0 THEN {<<>>}
    ELSE UNION {{Append(q, x) : x \in S \ {q[i] : i \in 1..Len(q)}} : q \in DistinctSeqs(S, n - 1)}

YearFilters == {{}, {2022}, {2021, 2023}}

Artifact(d) ==
    [doc |-> d, path |-> Docs[d].path, is_gdrive |-> Docs[d].is_gdrive,
     metadata |-> <<>>, text |-> None, classification |-> <<>>,
     hours_spent |-> <<>>, temp_path |-> None]

\* the artifacts list before the year filter: the local files that pass the
\* path and extension filters, then the files of the drive
Enumerated(fs, drive) ==
    LET loc == SelectSeq(fs, LAMBDA d : PassesFilters[d])
        all == loc \o drive
    IN  [i \in 1..Len(all) |-> Artifact(all[i])]

\* int(s): the value of a string of digits, a ValueError otherwise
IntParses(s) == AllDigits(Strip(s))
IntOf(s) == DigitsVal(Strip(s))

\* int(artifact.gdrive_file.modified_time[:4])
YearLen == 4
modified_year(a) == IntOf(Prefix(Docs[a.doc].modified_time, YearLen))

\* the year filter of pass_one_surface_scan (lines 238-256).  For a local
\* artifact it calls classifier.filter_by_year(..., years=..., ...), whose
\* keyword-only parameter is named year: the call raises TypeError before
\* filter_by_year runs.  Returns [raised, artifacts].
YearFilter(arts, year_set) ==
    IF \E i \in 1..Len(arts) : ~arts[i].is_gdrive
    THEN [raised |-> "TypeError", artifacts |-> <<>>]
    ELSE IF \E i \in 1..Len(arts) :
                ~IntParses(Prefix(Docs[arts[i].doc].modified_time, YearLen))
    THEN [raised |-> "ValueError", artifacts |-> <<>>]
    ELSE [raised |-> None,
          artifacts |-> SelectSeq(arts, LAMBDA a : modified_year(a) \in year_set)]

\* pass_one_surface_scan(years=...): [raised, artifacts]
pass_one_surface_scan(fs, drive, yrs) ==
    LET arts == Enumerated(fs, drive)
    IN  IF yrs /= {} THEN YearFilter(arts, yrs)
        ELSE [raised |-> None, artifacts |-> arts]

(***************************************************************************)
(* pipeline.py: _estimate_hours and the report row.                         *)
(***************************************************************************)
\* the position after the first occurrence of marker in text, 0 if none
AfterMarker(text, marker) ==
    LET at == {i \in 1..(Len(text) - Len(marker) + 1) :
                  SubSeq(text, i, i + Len(marker) - 1) = marker}
    IN  IF at = {} THEN 0
        ELSE (CHOOSE i \in at : \A j \in at : i <= j) + Len(marker)

\* s.split()[0]: the first run of non-whitespace, "" when there is none
\* (an IndexError in the code)
FirstToken(s) ==
    LET n == Len(s)
        starts == {i \in 1..n : ~IsSpace(CharAt(s, i))}
    IN  IF starts = {} THEN ""
        ELSE LET lo == CHOOSE i \in starts : \A j \in starts : i <= j
                 hi == CHOOSE j \in lo..n :
                           /\ \A k \in lo..j : ~IsSpace(CharAt(s, k))
                           /\ (j = n \/ IsSpace(CharAt(s, j + 1)))
             IN  SubSeq(s, lo, hi)

\* float(tok) for plain decimals of at most two places: <<hundredths>>, or <<>>
\* for a ValueError
ParseFloat(tok) ==
    LET dots == {i \in 1..Len(tok) : CharAt(tok, i) = "."}
    IN  IF dots = {}
        THEN IF AllDigits(tok) THEN <<DigitsVal(tok) * Hundredths>> ELSE <<>>
        ELSE IF Cardinality(dots) > 1 THEN <<>>
        ELSE LET d == CHOOSE i \in dots : TRUE
                 whole == SubSeq(tok, 1, d - 1)
                 frac == SubSeq(tok, d + 1, Len(tok))
                 okW == whole = "" \/ AllDigits(whole)
                 okF == frac = "" \/ (AllDigits(frac) /\ Len(frac) <= 2)
             IN  IF okW /\ okF /\ (whole /= "" \/ frac /= "")
                 THEN <<DigitsVal(whole) * Hundredths
                        + (IF Len(frac) = 1 THEN DigitsVal(frac) * 10 ELSE DigitsVal(frac))>>
                 ELSE <<>>

HoursMarker == "HoursSpent:"

\* _estimate_hours lines 542-549: float(text.split(marker, 1)[1].split()[0]),
\* None without the marker or on ValueError / IndexError
marker_value(text) ==
    LET t == IF text = None THEN "" ELSE text
        k == AfterMarker(t, HoursMarker)
    IN  IF k = 0 THEN <<>>
        ELSE ParseFloat(FirstToken(SubSeq(t, k, Len(t))))

\* _estimate_hours(artifact, metadata): <<hours>> or <<>> for None.  The
\* metadata it is given is config.metadata (line 351), whose "author" is the
\* author field of the configuration.
estimate_hours(cfg, text) ==
    IF cfg.author = None \/ cfg.author = "" THEN <<>>
    ELSE marker_value(text)

\* str(x) of a float counted in hundredths: "2.5", "3.0", "0.25"
FloatStr(h) ==
    NatStr(h \div Hundredths) \o "."
    \o (IF h % 10 = 0 THEN NatStr((h % Hundredths) \div 10)
        ELSE NatStr((h % Hundredths) \div 10) \o NatStr(h % 10))

\* artifact.hours_spent or ""
HoursField(hours_spent) ==
    IF hours_spent = <<>> \/ hours_spent[1] = 0 THEN "" ELSE FloatStr(hours_spent[1])

\* EnhancedClassificationResult.portfolio_destination
portfolio_destination(primary_category) ==
    CASE primary_category = "Teaching" -> "Teaching Evidence"
      [] primary_category = "Service" -> "Service Evidence"
      [] primary_category = "Scholarship" -> "Scholarship Evidence"
      [] primary_category = "Research" -> "Scholarship Evidence"
      [] primary_category = "Administration" -> "Service Evidence"
      [] OTHER -> "Unclassified"

\* the row pass_three_report writes for an artifact
Row(a) ==
    IF a.classification /= <<>>
    THEN [path |-> a.path,
          primary_category |-> a.classification[1].primary_category,
          categories |-> a.classification[1].categories,
          destination |-> portfolio_destination(a.classification[1].primary_category),
          score |-> Fmt2(a.classification[1].score),
          hours_spent |-> HoursField(a.hours_spent)]
    ELSE [path |-> a.path,
          primary_category |-> Unclassified,
          categories |-> <<>>,
          destination |-> "",
          score |-> "0.00",
          hours_spent |-> HoursField(a.hours_spent)]

(***************************************************************************)
(* pipeline.py: run_all as a state machine.  Pass 1 is one step; pass 2     *)
(* takes one step per sub-step of the artifact in work; pass 3 and the      *)
(* return of run_all are one step.                                          *)
(***************************************************************************)
BucketNames == {Categories[c].name : c \in 1..Len(Categories)} \cup {Unclassified}

PipeIdle ==
    /\ pc = "idle"
    /\ cfgId = 1
    /\ years = {}
    /\ apply_tags = FALSE
    /\ fsFiles = <<>>
    /\ driveFiles = <<>>
    /\ artifacts = <<>>
    /\ idx = 0
    /\ step = "none"
    /\ enriched = <<>>
    /\ bucket_totals = [b \in BucketNames |-> 0]
    /\ outcome = <<>>
    /\ tempFiles = {}
    /\ events = <<>>
    /\ report = <<>>
    /\ result = <<>>
    /\ raised = None
    /\ listener = "none"
    /\ stream = <<>>
    /\ elapsed = 0
    /\ completion = <<>>
    /\ tag_writes = {}

LegacyIdle ==
    /\ lpc = "idle"
    /\ lname = ""
    /\ lmeta = <<>>
    /\ ltext = None
    /\ lresult = <<>>

\* pass_one_surface_scan is not called
ScanIdle ==
    /\ spc = "idle"
    /\ spos = 0
    /\ root_exists = <<>>
    /\ dir_status = <<>>
    /\ drive_enabled = <<>>
    /\ fetch_fails = {}
    /\ recursive = TRUE
    /\ found = <<>>
    /\ sraised = None

\* Application.__init__ (lines 166-174): no results, no thread, an empty queue
GuiIdle ==
    /\ clicks = 0
    /\ pass_one_results = <<>>
    /\ pass_two_results = <<>>
    /\ workers = <<>>
    /\ after_calls = <<>>
    /\ log_queue = <<>>
    /\ put_count = 0
    /\ progress_output = <<>>
    /\ polling = FALSE
    /\ dialogs = <<>>
    /\ config = 1

\* no rule set is being compared
RulesIdle ==
    /\ rpc = "idle"
    /\ rules = <<>>
    /\ rdoc = 0
    /\ radded = None
    /\ rresults = <<>>

Init ==
    /\ LegacyIdle
    /\ GuiIdle
    /\ ScanIdle
    /\ RulesIdle
    /\ pc = "start"
    /\ cfgId \in 1..Len(Configs)
    /\ years \in YearFilters
    /\ apply_tags \in BOOLEAN
    /\ \E nl \in 0..MaxDocs : \E nr \in 0..(MaxDocs - nl) :
          /\ fsFiles \in DistinctSeqs(LocalIds, nl)
          /\ driveFiles \in DistinctSeqs(RemoteIds, nr)
    /\ artifacts = <<>>
    /\ idx = 0
    /\ step = "none"
    /\ enriched = <<>>
    /\ bucket_totals = [b \in BucketNames |-> 0]
    /\ outcome = <<>>
    /\ tempFiles = {}
    /\ events = <<>>
    /\ report = <<>>
    /\ result = <<>>
    /\ raised = None
    /\ listener = "returns"
    /\ stream = <<>>
    /\ elapsed = 0
    /\ completion = <<>>
    /\ tag_writes = {}

cfg == Configs[cfgId]

\* the stream of stages once an event of the stage is given to the listener
Staged(stage) ==
    IF listener = "none" \/ (stream /= <<>> /\ stream[Len(stream)] = stage)
    THEN stream
    ELSE Append(stream, stage)

\* run_all line 492: pass 1; an exception of pass 1 leaves run_all.  Pass 1
\* gives the listener an event per file it scans (lines 191-198, 208-218) and,
\* when it returns, the summary event (lines 258-266), all of stage "pass1".
PassOne ==
    /\ pc = "start"
    /\ LET r == pass_one_surface_scan(fsFiles, driveFiles, years)
       IN  IF r.raised /= None
           THEN /\ pc' = "raised"
                /\ raised' = r.raised
                /\ stream' = IF Len(Enumerated(fsFiles, driveFiles)) > 0
                             THEN Staged("pass1") ELSE stream
                /\ UNCHANGED <<artifacts, outcome, events, step, completion>>
           ELSE /\ pc' = "pass2"
                /\ artifacts' = r.artifacts
                /\ outcome' = [i \in 1..Len(r.artifacts) |-> "pending"]
                /\ events' = [i \in 1..Len(r.artifacts) |-> <<>>]
                /\ completion' = [i \in 1..Len(r.artifacts) |-> <<>>]
                /\ stream' = Staged("pass1")
                /\ step' = "next"
                /\ UNCHANGED raised
    /\ UNCHANGED <<cfgId, years, apply_tags, fsFiles, driveFiles, idx, enriched,
                   bucket_totals, tempFiles, report, result, listener, elapsed, tag_writes>>
    /\ UNCHANGED notPipeVars

unchangedByPassTwo == <<pc, cfgId, years, apply_tags, fsFiles, driveFiles, report, result, raised,
                        listener>>

\* the for loop of pass 2 takes the next artifact
P2Next ==
    /\ pc = "pass2" /\ step = "next" /\ idx < Len(artifacts)
    /\ idx' = idx + 1
    /\ step' = "load"
    /\ UNCHANGED <<artifacts, enriched, bucket_totals, outcome, tempFiles, events,
                   stream, elapsed, completion, tag_writes>>
    /\ UNCHANGED unchangedByPassTwo
    /\ UNCHANGED notPipeVars

\* report_file_progress(percentage, step) and the final event of a file
\* (lines 285-297, 382-398): the listener is given events with these steps
Emitted(steps) ==
    IF listener = "none" THEN events ELSE [events EXCEPT ![idx] = @ \o steps]

\* a sub-step of the loop body was run: it took a second, and the listener
\* was given its events, of stage "pass2"
StepTaken ==
    /\ elapsed' = elapsed + 1
    /\ stream' = Staged("pass2")

\* the except clause (lines 407-419) after the events the step emitted before
\* it raised: an Error event, then the next artifact
Except(steps) ==
    /\ outcome' = [outcome EXCEPT ![idx] = "error"]
    /\ events' = Emitted(steps \o <<"Error">>)
    /\ step' = "next"

\* tempfile.NamedTemporaryFile(delete=False, suffix=Path(gdrive_file.name).suffix).name
TempPathOf(d) == "/tmp/tmpq7x2k9w" \o Suffix(Docs[d].gname)

TempPath(a) == TempPathOf(a.doc)

\* what gather_metadata, extract_text and classification are given
file_path(a) == IF a.is_gdrive THEN a.temp_path ELSE a.path

\* _classify_artifact(file_path, artifact.text or "", meta.raw) and
\* _estimate_hours(artifact, config.metadata), tabulated once per configuration
\* and document: when they are called, artifact.text is the extracted text of
\* the document and file_path is its path (local) or its temporary copy (remote)
ClassifiedAs ==
    [c \in 1..Len(Configs) |->
        [d \in 1..Len(Docs) |->
            classify_artifact(Configs[c],
                              IF Docs[d].is_gdrive THEN TempPathOf(d) ELSE Docs[d].path,
                              Docs[d].text)]]

EstimatedHours ==
    [c \in 1..Len(Configs) |-> [d \in 1..Len(Docs) |-> estimate_hours(Configs[c], Docs[d].text)]]

\* what MediaIoBaseDownload reports chunk by chunk for a remote document:
\* the bytes downloaded so far and the total (status.total_size, or file.size
\* when that is unknown; 0 for an export of unknown size)
download_chunks ==
    [d \in RemoteIds |->
        IF Docs[d].gname = "Journal Article.pdf"
        THEN << [downloaded |-> 512, total |-> 1024], [downloaded |-> 1024, total |-> 1024] >>
        ELSE << [downloaded |-> 2048, total |-> 0] >>]

\* the step of a download-progress event (line 311)
DownloadStep(c) ==
    "Downloading (" \o NatStr(c.downloaded) \o "/" \o NatStr(c.total) \o " bytes)"

\* download_progress (lines 308-311) over the chunks of a download: an event
\* per chunk whose total is known
DownloadEvents(d) ==
    LET known == SelectSeq(download_chunks[d], LAMBDA c : c.total > 0)
    IN  [k \in 1..Len(known) |-> DownloadStep(known[k])]

\* the file_progress_percentage each step is reported with: the first
\* argument of report_file_progress at its call site, 10 + (downloaded /
\* total) * 20 for a download-progress event, 100 in the completion event and
\* 0 in the Error event
file_progress_percentage(file_progress_step) ==
    CASE file_progress_step = "Loading file" -> 0
      [] file_progress_step = "Downloading from Google Drive" -> 10
      [] file_progress_step = "File loaded" -> 30
      [] file_progress_step = "Reading metadata" -> 30
      [] file_progress_step = "Metadata extracted" -> 45
      [] file_progress_step = "Extracting text content" -> 45
      [] file_progress_step = "Text extracted" -> 70
      [] file_progress_step = "Classifying document" -> 70
      [] file_progress_step = "Classification complete" -> 85
      [] file_progress_step = "Estimating effort" -> 85
      [] file_progress_step = "Effort estimated" -> 90
      [] file_progress_step = "Applying Finder tags" -> 90
      [] file_progress_step = "Finder tags applied" -> 100
      [] file_progress_step = "Complete" -> 100
      [] file_progress_step = "Error" -> 0
      [] OTHER ->
            LET c == CHOOSE c \in UNION {{download_chunks[d][k] : k \in 1..Len(download_chunks[d])} :
                                             d \in RemoteIds} :
                        c.total > 0 /\ DownloadStep(c) = file_progress_step
            IN  10 + (c.downloaded * 20) \div c.total

\* step 1 (lines 300-331): load, or download to a temporary file
P2Load ==
    /\ pc = "pass2" /\ step = "load"
    /\ IF artifacts[idx].is_gdrive
       THEN \E dl \in {"content", "no content", "write raises", "create raises"} :
               CASE dl = "content" ->
                      /\ tempFiles' = tempFiles \cup {idx}
                      /\ artifacts' = [artifacts EXCEPT ![idx].temp_path = TempPath(artifacts[idx])]
                      /\ events' = Emitted(<<"Loading file", "Downloading from Google Drive">>
                                           \o DownloadEvents(artifacts[idx].doc)
                                           \o <<"File loaded">>)
                      /\ step' = "meta"
                      /\ UNCHANGED outcome
                 [] dl = "no content" ->
                      \* download_file_content returned None or b"": continue
                      /\ step' = "next"
                      /\ outcome' = [outcome EXCEPT ![idx] = "no content"]
                      /\ events' = Emitted(<<"Loading file", "Downloading from Google Drive">>)
                      /\ UNCHANGED <<tempFiles, artifacts>>
                 [] dl = "write raises" ->
                      \* the file exists, temp_path was not assigned yet
                      /\ tempFiles' = tempFiles \cup {idx}
                      /\ Except(<<"Loading file", "Downloading from Google Drive">>
                                \o DownloadEvents(artifacts[idx].doc))
                      /\ UNCHANGED artifacts
                 [] dl = "create raises" ->
                      /\ Except(<<"Loading file", "Downloading from Google Drive">>
                                \o DownloadEvents(artifacts[idx].doc))
                      /\ UNCHANGED <<tempFiles, artifacts>>
       ELSE /\ step' = "meta"
            /\ events' = Emitted(<<"Loading file", "File loaded">>)
            /\ UNCHANGED <<tempFiles, artifacts, outcome>>
    /\ StepTaken
    /\ UNCHANGED <<idx, enriched, bucket_totals>>
    /\ UNCHANGED <<completion, tag_writes>>
    /\ UNCHANGED unchangedByPassTwo
    /\ UNCHANGED notPipeVars

\* the keys of the snapshot run_mdls builds: the names it asks mdls for
MdlsKeys == {"kMDItemContentCreationDate", "kMDItemKind", "kMDItemUserTags"}

\* step 2 (lines 333-337): gather_metadata; artifact.metadata is the snapshot,
\* kept here as <<the set of its keys>> (<<>> before the step)
P2Metadata ==
    /\ pc = "pass2" /\ step = "meta"
    /\ \E raises \in BOOLEAN :
          IF raises
          THEN Except(<<"Reading metadata">>) /\ UNCHANGED artifacts
          ELSE /\ artifacts' = [artifacts EXCEPT ![idx].metadata = <<MdlsKeys>>]
               /\ events' = Emitted(<<"Reading metadata", "Metadata extracted">>)
               /\ step' = "text"
               /\ UNCHANGED outcome
    /\ StepTaken
    /\ UNCHANGED <<idx, enriched, bucket_totals, tempFiles>>
    /\ UNCHANGED <<completion, tag_writes>>
    /\ UNCHANGED unchangedByPassTwo
    /\ UNCHANGED notPipeVars

\* step 3 (lines 339-342): extract_text
P2Extract ==
    /\ pc = "pass2" /\ step = "text"
    /\ \E raises \in BOOLEAN :
          IF raises
          THEN Except(<<"Extracting text content">>) /\ UNCHANGED artifacts
          ELSE /\ artifacts' = [artifacts EXCEPT ![idx].text = Docs[artifacts[idx].doc].text]
               /\ events' = Emitted(<<"Extracting text content", "Text extracted">>)
               /\ step' = "classify"
               /\ UNCHANGED outcome
    /\ StepTaken
    /\ UNCHANGED <<idx, enriched, bucket_totals, tempFiles>>
    /\ UNCHANGED <<completion, tag_writes>>
    /\ UNCHANGED unchangedByPassTwo
    /\ UNCHANGED notPipeVars

\* step 4 (lines 344-347): _classify_artifact(file_path, artifact.text or "", meta.raw)
P2Classify ==
    /\ pc = "pass2" /\ step = "classify"
    /\ \E raises \in BOOLEAN :
          IF raises
          THEN Except(<<"Classifying document">>) /\ UNCHANGED artifacts
          ELSE /\ artifacts' = [artifacts EXCEPT ![idx].classification =
                      ClassifiedAs[cfgId][artifacts[idx].doc]]
               /\ events' = Emitted(<<"Classifying document", "Classification complete">>)
               /\ step' = "effort"
               /\ UNCHANGED outcome
    /\ StepTaken
    /\ UNCHANGED <<idx, enriched, bucket_totals, tempFiles>>
    /\ UNCHANGED <<completion, tag_writes>>
    /\ UNCHANGED unchangedByPassTwo
    /\ UNCHANGED notPipeVars

\* the bucket of an artifact (lines 354-356)
Bucket(a) ==
    IF a.classification /= <<>> THEN a.classification[1].primary_category ELSE Unclassified

\* step 5 (lines 349-357): _estimate_hours, then the bucket is counted
P2Effort ==
    /\ pc = "pass2" /\ step = "effort"
    /\ \E raises \in BOOLEAN :
          IF raises
          THEN Except(<<"Estimating effort">>) /\ UNCHANGED <<artifacts, bucket_totals>>
          ELSE /\ artifacts' = [artifacts EXCEPT ![idx].hours_spent =
                      EstimatedHours[cfgId][artifacts[idx].doc]]
               /\ events' = Emitted(<<"Estimating effort", "Effort estimated">>)
               /\ bucket_totals' = [bucket_totals EXCEPT ![Bucket(artifacts[idx])] = @ + 1]
               /\ step' = "tags"
               /\ UNCHANGED outcome
    /\ StepTaken
    /\ UNCHANGED <<idx, enriched, tempFiles>>
    /\ UNCHANGED <<completion, tag_writes>>
    /\ UNCHANGED unchangedByPassTwo
    /\ UNCHANGED notPipeVars

\* a slip: the tags of a remote document are written as well
WritesTags_alsoRemote(a) ==
    /\ apply_tags
    /\ a.classification /= <<>>
    /\ cfg.enable_finder_tags

\* the condition under which the Finder tags are written (line 361)
WritesTags(a) ==
    /\ apply_tags
    /\ a.classification /= <<>>
    /\ cfg.enable_finder_tags
    /\ ~a.is_gdrive

\* eta_seconds (lines 373-379) as the fraction num / den: None (<<>>) unless
\* time has passed and artifacts remain, else (elapsed / index) * remaining
eta_seconds(elapsed_now, index, total_candidates) ==
    IF index /= 0 /\ elapsed_now > 0 /\ total_candidates - index > 0
    THEN << [num |-> elapsed_now * (total_candidates - index), den |-> index] >>
    ELSE <<>>

\* the completion event of the artifact in work (lines 382-398); elapsed is
\* the time its eta_seconds was computed from, written beside the event
CompletionEvent ==
    [scanned_count |-> idx,
     total_candidates |-> Len(artifacts),
     bucket |-> Bucket(artifacts[idx]),
     bucket_totals |-> bucket_totals,
     eta_seconds |-> eta_seconds(elapsed + 1, idx, Len(artifacts)),
     elapsed |-> elapsed + 1]

\* a slip: the artifact is put in front of the list
appended_inFront(list, i) == <<i>> \o list

\* enriched.append(artifact) (line 371)
appended(list, i) == Append(list, i)

\* step 6 and the end of the try block (lines 359-405): the tags, the append
\* to enriched, the completion event, the removal of the temporary file
P2Tags ==
    /\ pc = "pass2" /\ step = "tags"
    /\ tag_writes' = IF WritesTags(artifacts[idx]) THEN tag_writes \cup {idx} ELSE tag_writes
    /\ \E raises \in BOOLEAN :
          IF raises /\ WritesTags(artifacts[idx])
          THEN Except(<<"Applying Finder tags">>) /\ UNCHANGED <<enriched, tempFiles, completion>>
          ELSE /\ enriched' = appended(enriched, idx)
               /\ completion' = IF listener = "none" THEN completion
                                ELSE [completion EXCEPT ![idx] = <<CompletionEvent>>]
               /\ outcome' = [outcome EXCEPT ![idx] = "completed"]
               /\ events' = Emitted(IF WritesTags(artifacts[idx])
                                     THEN <<"Applying Finder tags", "Finder tags applied",
                                            "Complete">>
                                     ELSE <<"Complete", "Complete">>)
               /\ tempFiles' = IF artifacts[idx].temp_path /= None
                               THEN tempFiles \ {idx} ELSE tempFiles
               /\ step' = "next"
    /\ StepTaken
    /\ UNCHANGED <<idx, artifacts, bucket_totals>>
    /\ UNCHANGED unchangedByPassTwo
    /\ UNCHANGED notPipeVars

PassTwoStep == P2Next \/ P2Load \/ P2Metadata \/ P2Extract \/ P2Classify \/ P2Effort \/ P2Tags

\* pass 2 returns enriched (line 421)
P2Return ==
    /\ pc = "pass2" /\ step = "next" /\ idx = Len(artifacts)
    /\ pc' = "pass3"
    /\ step' = "none"
    /\ UNCHANGED <<cfgId, years, apply_tags, fsFiles, driveFiles, artifacts, idx, enriched,
                   bucket_totals, outcome, tempFiles, events, report, result, raised,
                   listener, stream, elapsed, completion, tag_writes>>
    /\ UNCHANGED notPipeVars

\* a slip: a record without a classification is left out of the file
pass_three_report_skipUnclassified(list) ==
    LET kept == SelectSeq(list, LAMBDA i : artifacts[i].classification /= <<>>)
    IN  [i \in 1..Len(kept) |-> Row(artifacts[kept[i]])]

\* a slip: the rows are written last record first
pass_three_report_reversed(list) ==
    [i \in 1..Len(list) |-> Row(artifacts[list[Len(list) + 1 - i]])]

\* pass_three_report(artifacts): one data row per artifact of the list, in order
pass_three_report(list) == [i \in 1..Len(list) |-> Row(artifacts[list[i]])]

\* the file pass_three_report writes and returns when run_all gives it no
\* output (no reporting section in the configuration): Path.cwd() / "dossier_report.csv"
default_output == "dossier_report.csv"

\* a slip: the two counts change places
RunAllResult_countsSwapped(reporting_path, arts, enr) ==
    [report_path |-> reporting_path, pass_one_count |-> Len(enr), pass_two_count |-> Len(arts)]

\* RunAllResult(report_path=..., pass_one_count=len(artifacts), pass_two_count=len(enriched))
RunAllResult(reporting_path, arts, enr) ==
    [report_path |-> reporting_path, pass_one_count |-> Len(arts), pass_two_count |-> Len(enr)]

\* run_all lines 498-516: pass 3 over enriched, then the RunAllResult
PassThree ==
    /\ pc = "pass3"
    /\ report' = pass_three_report(enriched)
    /\ result' = << RunAllResult(default_output, artifacts, enriched) >>
    /\ stream' = Staged("pass3")
    /\ pc' = "done"
    /\ UNCHANGED <<cfgId, years, apply_tags, fsFiles, driveFiles, artifacts, idx, step,
                   enriched, bucket_totals, outcome, tempFiles, events, raised,
                   listener, elapsed, completion, tag_writes>>
    /\ UNCHANGED notPipeVars

Next == PassOne \/ PassTwoStep \/ P2Return \/ PassThree

Spec == Init /\ [][Next]_vars

(***************************************************************************)
(* run_all with any progress listener: none, one that returns, one that     *)
(* can raise.                                                               *)
(***************************************************************************)
\* a bound on the documents of a run with any listener
MaxListenDocs == 2

\* the first event report_file_progress is called with in a sub-step
FirstEvent(a, at) ==
    CASE at = "load" -> "Loading file"
      [] at = "meta" -> "Reading metadata"
      [] at = "text" -> "Extracting text content"
      [] at = "classify" -> "Classifying document"
      [] at = "effort" -> "Estimating effort"
      [] at = "tags" -> IF WritesTags(a) THEN "Applying Finder tags" ELSE "Complete"

\* the listener raises when report_file_progress gives it the first event of
\* a sub-step (line 287, inside the try block): the except clause of the loop
\* body takes over and gives the listener the Error event (lines 409-419,
\* outside any try); if the listener raises again the exception leaves pass 2
\* and run_all, else the loop goes on with the next artifact
ListenerRaises ==
    /\ pc = "pass2"
    /\ step \in {"load", "meta", "text", "classify", "effort", "tags"}
    /\ listener = "raises"
    /\ events' = Emitted(<<FirstEvent(artifacts[idx], step), "Error">>)
    /\ stream' = Staged("pass2")
    /\ elapsed' = elapsed + 1
    /\ \E again \in BOOLEAN :
          IF again
          THEN /\ pc' = "raised"
               /\ raised' = "ListenerException"
               /\ UNCHANGED <<outcome, step>>
          ELSE /\ outcome' = [outcome EXCEPT ![idx] = "listener error"]
               /\ step' = "next"
               /\ UNCHANGED <<pc, raised>>
    /\ UNCHANGED <<cfgId, years, apply_tags, fsFiles, driveFiles, artifacts, idx, enriched,
                   bucket_totals, tempFiles, report, result, listener, completion, tag_writes>>
    /\ UNCHANGED notPipeVars

\* run_all(apply_tags=..., progress_callback=...) without a year filter
ListenInit ==
    /\ LegacyIdle
    /\ GuiIdle
    /\ ScanIdle
    /\ RulesIdle
    /\ pc = "start"
    /\ cfgId \in {c \in 1..Len(Configs) : Configs[c].enable_finder_tags}
    /\ years = {}
    /\ apply_tags \in BOOLEAN
    /\ \E nl \in 0..MaxListenDocs : \E nr \in 0..(MaxListenDocs - nl) :
          /\ fsFiles \in DistinctSeqs(LocalIds, nl)
          /\ driveFiles \in DistinctSeqs(RemoteIds, nr)
    /\ artifacts = <<>>
    /\ idx = 0
    /\ step = "none"
    /\ enriched = <<>>
    /\ bucket_totals = [b \in BucketNames |-> 0]
    /\ outcome = <<>>
    /\ tempFiles = {}
    /\ events = <<>>
    /\ report = <<>>
    /\ result = <<>>
    /\ raised = None
    /\ listener \in {"none", "returns", "raises"}
    /\ stream = <<>>
    /\ elapsed = 0
    /\ completion = <<>>
    /\ tag_writes = {}

ListenNext == Next \/ ListenerRaises

SpecListen == ListenInit /\ [][ListenNext]_vars

(***************************************************************************)
(* Claims about the pipeline.                                               *)
(***************************************************************************)
Indices == 1..Len(artifacts)

\* pass 2 is through with artifact i
Finished(i) ==
    \/ pc \in {"pass3", "done"}
    \/ pc = "pass2" /\ (i < idx \/ (i = idx /\ step = "next"))

\* artifact i left the loop body by the except clause or by the failed download
Failed(i) == outcome[i] \in {"error", "no content"}

\* C1: for every document that pass 2 classifies, the score stored in its
\* classification is at least 0 and at most cap_per_file, and so is the score
\* written to its report row, whatever the configured weights, points and cap.
C1_ScoreWithinCap ==
    /\ \A i \in Indices :
          artifacts[i].classification /= <<>> =>
              /\ artifacts[i].classification[1].score >= 0
              /\ artifacts[i].classification[1].score <= cfg.cap_per_file * Hundredths
    /\ \A r \in 1..Len(report) :
          \E v \in 0..(cfg.cap_per_file * Hundredths) : report[r].score = Fmt2(v)

\* C2: when run_all is done, every document pass 1 surfaced has a row in the
\* report, also one whose pass 2 processing failed (as Unclassified), so the
\* number of rows is the pass-one count.
C2_FailedDocumentsStillReported ==
    pc = "done" =>
        /\ Len(report) = result[1].pass_one_count
        /\ \A i \in Indices :
              \E r \in 1..Len(report) :
                  /\ report[r].path = artifacts[i].path
                  /\ (Failed(i) => report[r].primary_category = Unclassified)

\* the indices of the artifacts that did not fail, in input order
NonFailing ==
    SelectSeq([i \in Indices |-> i], LAMBDA i : ~Failed(i))

\* C3: whatever documents raise in whatever sub-step of pass 2, pass 2 goes
\* on (it can always take a step until it returns), it has been through every
\* document when it returns, and it returns the documents that did not fail,
\* in input order.
C3_OneBadDocumentNeverAbortsTheBatch ==
    /\ pc = "pass2" => ENABLED (PassTwoStep \/ P2Return)
    /\ pc = "pass2" => raised = None
    /\ pc \in {"pass3", "done"} =>
          /\ idx = Len(artifacts)
          /\ \A i \in Indices : outcome[i] /= "pending"
          /\ enriched = NonFailing

\* pass 2 has returned, a document failed and a later one is in the output
C3_Witness ==
    /\ pc = "pass3"
    /\ \E i, j \in Indices : i < j /\ outcome[i] = "error" /\ outcome[j] = "completed"
    /\ Len(enriched) > 0

\* C4: once pass 2 is through with a remote document, the temporary local
\* copy made for it does not exist any more, whether the document completed
\* or an exception was raised after the download.
C4_TemporaryCopyRemoved ==
    \A i \in Indices : Finished(i) => i \notin tempFiles

\* the documents pass 1 is to return: all the enumerated candidates without a
\* year filter, else those whose year is one of the requested years
ExpectedPassOne ==
    LET all == SelectSeq(fsFiles, LAMBDA d : PassesFilters[d]) \o driveFiles
    IN  IF years = {} THEN all
        ELSE SelectSeq(all, LAMBDA d : Docs[d].year \in years)

\* C5: pass 1 returns exactly the enumerated candidates whose creation year
\* (local) or modification year (remote) is one of the requested years, and
\* all the enumerated candidates when no year is requested.
C5_YearFilterRetainsRequestedYears ==
    pc /= "start" =>
        /\ raised = None
        /\ [i \in Indices |-> artifacts[i].doc] = ExpectedPassOne

\* the modified time of remote document d does not start with a year
Undated(d) == Docs[d].is_gdrive /\ ~IntParses(Prefix(Docs[d].modified_time, YearLen))

\* C11: over remote candidates, when a year filter is requested a candidate
\* whose modified time has no leading 4-digit year is left out of the output
\* of pass 1 while pass 1 returns the other candidates of the requested years
\* without failing; when no filter is requested it passes through.
C11_UndatedCandidateExcludedOnlyUnderFilter ==
    (/\ pc /= "start"
     /\ SelectSeq(fsFiles, LAMBDA d : PassesFilters[d]) = <<>>
     /\ \E k \in 1..Len(driveFiles) : Undated(driveFiles[k])) =>
        /\ raised = None
        /\ [i \in Indices |-> artifacts[i].doc] =
              IF years = {} THEN driveFiles
              ELSE SelectSeq(driveFiles, LAMBDA d : ~Undated(d) /\ Docs[d].year \in years)

\* C12: every document that entered pass 2 and did not complete it, also one
\* whose download gave no content, has had a progress event with the step
\* "Error" given to the listener.
C12_FailedDocumentHasErrorEvent ==
    \A i \in Indices :
        (Finished(i) /\ outcome[i] /= "completed") =>
            \E k \in 1..Len(events[i]) : events[i][k] = "Error"

\* C13: for a document pass 2 completed, the effort is estimated only when
\* the document's own metadata snapshot has an author field, and is then the
\* number after the marker "HoursSpent:" in its text; without the marker, or
\* when the value does not parse, the effort is unknown (None), never 0.
C13_EffortOnlyWithOwnAuthor ==
    \A i \in Indices :
        (Finished(i) /\ outcome[i] = "completed") =>
            LET own == artifacts[i].metadata[1]
                text == artifacts[i].text
            IN  /\ "author" \notin own => artifacts[i].hours_spent = <<>>
                /\ "author" \in own => artifacts[i].hours_spent = marker_value(text)
                /\ ~Contains(text, HoursMarker) => artifacts[i].hours_spent = <<>>

\* C14: in every report row the effort-hours column is blank when the effort
\* of the record is unknown and is never the text "None"; a known effort,
\* zero included, is written as its number.
C14_HoursColumnBlankOnlyWhenUnknown ==
    pc = "done" =>
        \A k \in 1..Len(report) :
            LET hours == artifacts[enriched[k]].hours_spent
            IN  /\ report[k].hours_spent /= "None"
                /\ hours = <<>> => report[k].hours_spent = ""
                /\ hours /= <<>> => report[k].hours_spent = FloatStr(hours[1])

\* weight x number of matched subcategories of the c-th matched category
WeightedHits(cats, c) == Len(cats[c].subs) * weight_of(cfg, cats[c].name)

\* C8: the primary category of a classified document is the matched category
\* with the greatest weight x number of matched subcategories (weight 1.0 when
\* not configured); on a tie the category declared first wins.
C8_PrimaryIsMaxWeightedCategory ==
    \A i \in Indices :
        artifacts[i].classification /= <<>> =>
            LET cats == artifacts[i].classification[1].categories
                best == CHOOSE c \in 1..Len(cats) :
                            \A q \in 1..Len(cats) :
                                \/ WeightedHits(cats, c) > WeightedHits(cats, q)
                                \/ WeightedHits(cats, c) = WeightedHits(cats, q) /\ c <= q
            IN  artifacts[i].classification[1].primary_category = cats[best].name

\* the place of a stage in a run
StageNumber(stage) ==
    CASE stage = "pass1" -> 1 [] stage = "pass2" -> 2 [] stage = "pass3" -> 3

\* C21: in run_all the events of pass 1 come first, then those of pass 2,
\* then the event of pass 3: no event of a pass is given before the pass
\* before it has returned; the result carries the number of pass 1
\* candidates, the number of pass 2 outputs, which is never greater, and the
\* path of the report written
C21_PassesInOrderAndCompositeResult ==
    /\ \A k \in 1..Len(stream) :
          \A j \in 1..Len(stream) : k < j => StageNumber(stream[k]) < StageNumber(stream[j])
    /\ pc = "start" => stream = <<>>
    /\ pc = "pass2" => \A k \in 1..Len(stream) : stream[k] /= "pass3"
    /\ (\E k \in 1..Len(stream) : stream[k] = "pass3") => pc = "done"
    /\ pc = "done" =>
          /\ result /= <<>>
          /\ result[1].pass_one_count = Len(artifacts)
          /\ result[1].pass_two_count = Len(enriched)
          /\ result[1].pass_two_count <= result[1].pass_one_count
          /\ result[1].report_path = default_output
          /\ Len(report) = result[1].pass_two_count
    /\ pc /= "done" => result = <<>>

\* a run of all three passes in which pass 2 lost a document
C21_Witness ==
    /\ pc = "done"
    /\ stream = <<"pass1", "pass2", "pass3">>
    /\ result[1].pass_one_count = 3
    /\ result[1].pass_two_count = 2

\* C22: within the processing of one document the percentages of the
\* successive progress events never decrease and stay within 0..100, the
\* download-progress events of a remote document included
C22_FileProgressNeverDecreases ==
    \A i \in Indices :
        \A k \in 1..Len(events[i]) :
            /\ file_progress_percentage(events[i][k]) \in 0..100
            /\ k > 1 => file_progress_percentage(events[i][k - 1])
                            <= file_progress_percentage(events[i][k])

\* pass 2 came to the tag step of artifact i
ReachedTagStep(i) == \E k \in 1..Len(events[i]) : events[i][k] = "Effort estimated"

\* tagging was not requested, is disabled, or does not apply to artifact i
NoTagging(i) ==
    \/ ~apply_tags
    \/ ~cfg.enable_finder_tags
    \/ artifacts[i].is_gdrive
    \/ artifacts[i].classification = <<>>

\* C23: write_finder_tags is never called for a document when apply_tags is
\* false, when tagging is disabled in the configuration, when the document is
\* remote or when it has no classification; such a document still reaches the
\* 100% step and is in the pass 2 output
C23_NoTagWriteUnlessRequested ==
    \A i \in Indices :
        /\ NoTagging(i) => i \notin tag_writes
        /\ (NoTagging(i) /\ ReachedTagStep(i) /\ Finished(i)) =>
              /\ \E k \in 1..Len(enriched) : enriched[k] = i
              /\ events[i][Len(events[i])] = "Complete"
              /\ file_progress_percentage(events[i][Len(events[i])]) = 100

\* with tagging requested and enabled, a classified remote document went
\* through without a tag write while a local one had its tags written
C23_Witness ==
    /\ pc = "done"
    /\ apply_tags
    /\ cfg.enable_finder_tags
    /\ \E i \in Indices :
          /\ artifacts[i].is_gdrive
          /\ artifacts[i].classification /= <<>>
          /\ i \notin tag_writes
          /\ \E k \in 1..Len(enriched) : enriched[k] = i
    /\ \E j \in Indices : ~artifacts[j].is_gdrive /\ j \in tag_writes

\* how many documents were completed when artifact i was: its place in the
\* pass 2 output
CompletedAt(i) == CHOOSE k \in 1..Len(enriched) : enriched[k] = i

\* C24: the ETA of a completion event is (elapsed time / documents completed
\* so far) x documents remaining, computed anew at every completed document
\* that leaves documents to do
C24_EtaFromCompletedDocuments ==
    \A i \in Indices :
        completion[i] /= <<>> =>
            LET event == completion[i][1]
                remaining == Len(artifacts) - i
            IN  remaining > 0 =>
                    /\ event.eta_seconds /= <<>>
                    /\ event.eta_seconds[1].num * CompletedAt(i)
                          = event.elapsed * remaining * event.eta_seconds[1].den

RECURSIVE SumOver(_, _)
\* the sum of the counts of the buckets of S
SumOver(totals, S) ==
    IF S = {} THEN 0
    ELSE LET b == CHOOSE x \in S : TRUE
         IN  totals[b] + SumOver(totals, S \ {b})

\* C29: in every completion event the category totals sum to the number of
\* documents completed so far; a completed document is counted in exactly
\* one bucket, its primary category or "Unclassified", a failed one in none;
\* scanned_count never decreases from one completion event to the next
C29_BucketTotalsCountCompletedDocuments ==
    /\ \A i \in Indices :
          completion[i] /= <<>> =>
              /\ SumOver(completion[i][1].bucket_totals, BucketNames) = CompletedAt(i)
              /\ completion[i][1].bucket \in BucketNames
              /\ completion[i][1].bucket =
                    (IF artifacts[i].classification /= <<>>
                     THEN artifacts[i].classification[1].primary_category
                     ELSE Unclassified)
    /\ pc \in {"pass3", "done"} =>
          SumOver(bucket_totals, BucketNames)
             = Cardinality({i \in Indices : outcome[i] = "completed"})
    /\ \A i \in Indices : \A j \in Indices :
          (i < j /\ completion[i] /= <<>> /\ completion[j] /= <<>>) =>
              completion[i][1].scanned_count <= completion[j][1].scanned_count

\* the artifacts none of whose own steps failed, in the order of the input
OwnStepsSucceeded ==
    SelectSeq([i \in 1..Len(artifacts) |-> i],
              LAMBDA i : outcome[i] \notin {"error", "no content"})

\* C26: what the passes return does not depend on the progress listener:
\* with no listener, one that returns or one that raises, pass 2 returns the
\* documents whose own steps did not fail, pass 3 writes their rows, and no
\* exception of the listener leaves the run
C26_OutputsIndependentOfListener ==
    /\ raised /= "ListenerException"
    /\ pc \in {"pass3", "done"} => enriched = OwnStepsSucceeded
    /\ pc = "done" => Len(report) = Len(OwnStepsSucceeded)

\* C27: the primary category of a classified document is one of its matched
\* categories, whatever the configured category weights; "Unclassified" is
\* the primary category (the bucket) of documents without a match only
C27_PrimaryIsAMatchedCategory ==
    \A i \in Indices :
        artifacts[i].classification /= <<>> =>
            LET cats == artifacts[i].classification[1].categories
            IN  /\ Len(cats) > 0
                /\ artifacts[i].classification[1].primary_category
                      \in {cats[c].name : c \in 1..Len(cats)}
                /\ artifacts[i].classification[1].primary_category /= Unclassified

\* no pattern of any rule is found in the text and path of document d
NoPatternFound(d) ==
    LET full == Lower(FullText(Docs[d].text,
                               IF Docs[d].is_gdrive THEN TempPathOf(d) ELSE Docs[d].path))
    IN  \A c \in 1..Len(Categories) : \A r \in 1..Len(Categories[c].subs) :
            \A p \in 1..Len(Categories[c].subs[r].patterns) :
                ~Contains(full, Lower(Categories[c].subs[r].patterns[p]))

MatchesNoRule == [d \in 1..Len(Docs) |-> NoPatternFound(d)]

\* the artifacts pass 2 has processed without failure that match no rule
ProcessedUnmatched ==
    {i \in Indices : Finished(i) /\ ~Failed(i) /\ MatchesNoRule[artifacts[i].doc]}

\* C9: a document that pass 2 has processed and that matches no rule has no
\* classification, is counted under "Unclassified" in the running totals, is
\* in the output of pass 2, and has a report row with primary category
\* "Unclassified" and score 0.00.
C9_UnmatchedDocumentIsUnclassified ==
    /\ pc \in {"pass2", "pass3", "done"} =>
          /\ \A i \in ProcessedUnmatched :
                /\ artifacts[i].classification = <<>>
                /\ \E k \in 1..Len(enriched) : enriched[k] = i
          /\ bucket_totals[Unclassified] >= Cardinality(ProcessedUnmatched)
    /\ pc = "done" =>
          \A i \in ProcessedUnmatched :
              \E r \in 1..Len(report) :
                  /\ report[r].path = artifacts[i].path
                  /\ report[r].primary_category = Unclassified
                  /\ report[r].score = "0.00"

\* the report holds the row of a processed document that matches no rule
C9_Witness ==
    /\ pc = "done"
    /\ ProcessedUnmatched /= {}
    /\ \E r \in 1..Len(report) : report[r].primary_category = Unclassified

\* C10: pass 3 writes one data row per record of the list it is given (in
\* run_all, the output of pass 2), in the order of the list, for a record with
\* a classification and for one without.
C10_OneRowPerRecordInOrder ==
    pc = "done" =>
        /\ Len(report) = Len(enriched)
        /\ \A k \in 1..Len(enriched) :
              /\ report[k].path = artifacts[enriched[k]].path
              /\ report[k].primary_category = Bucket(artifacts[enriched[k]])

\* a report of two rows, of a record with and of a record without classification
C10_Witness ==
    /\ pc = "done"
    /\ Len(report) >= 2
    /\ \E j, k \in 1..Len(enriched) :
          /\ artifacts[enriched[j]].classification = <<>>
          /\ artifacts[enriched[k]].classification /= <<>>

(***************************************************************************)
(* The legacy classifier applied to one document.                           *)
(***************************************************************************)
Str(s) == [isStr |-> TRUE, s |-> s]
NonStr == [isStr |-> FALSE, s |-> ""]

\* a run of n blanks, to place words around the 500-character cut
RECURSIVE Spaces(_)
Spaces(n) ==
    IF n = 0 THEN ""
    ELSE IF n % 2 = 0 THEN LET h == Spaces(n \div 2) IN h \o h
    ELSE " " \o Spaces(n - 1)

LegacyNames == {
    "concert_program_fall.pdf",
    "Ensemble-Concert.PDF",
    "composition_arrangement.sib",
    "Clinic_Adjudication_Notes.docx",
    "recording.mp3",
    "notes" }

LegacyMetas == {
    <<>>,
    <<Str("publicity"), NonStr>>,
    <<Str("Document"), Str("arrangements")>>,
    <<NonStr>> }

LegacyTexts == {
    None,
    "",
    "A new Composition for the ensemble",
    " clinic\tadjudicator\nrecording publicity ",
    Spaces(TextPrefixLen - 10) \o "clinic adjudication",
    Spaces(TextPrefixLen - 20) \o "clinic adjudication" }

LegacyInit ==
    /\ lpc = "input"
    /\ lname \in LegacyNames
    /\ lmeta \in LegacyMetas
    /\ ltext \in LegacyTexts
    /\ lresult = <<>>
    /\ PipeIdle
    /\ GuiIdle
    /\ ScanIdle
    /\ RulesIdle

Classify ==
    /\ lpc = "input"
    /\ lresult' = classify(lname, lmeta, ltext)
    /\ lpc' = "done"
    /\ UNCHANGED <<lname, lmeta, ltext>>
    /\ UNCHANGED notLegacyVars

LegacyNext == Classify

SpecLegacy == LegacyInit /\ [][LegacyNext]_vars

(***************************************************************************)
(* Claims about the legacy classifier.                                      *)
(***************************************************************************)

\* C6: the legacy classifier applied to concert_program_fall.pdf with no text
\* and no metadata returns Teaching / Ensemble Leadership, the result of the
\* rule with keywords ("concert program", "ensemble").
C6_ConcertProgramIsEnsembleLeadership ==
    (/\ lpc = "done"
     /\ lname = "concert_program_fall.pdf"
     /\ lmeta = <<>>
     /\ ltext \in {None, ""})
    => /\ lresult /= <<>>
       /\ lresult[1] = RULES[1][2]
       /\ lresult[1].category = "Teaching"
       /\ lresult[1].subcategory = "Ensemble Leadership"

\* the separators of _tokenize
Separators == Whitespace \cup {"_", "-"}

\* the rules whose every keyword is a prefix of some token of the document
FullySatisfied(name, metadata, text) ==
    LET toks == Tokens(name, metadata, text)
    IN  {r \in 1..Len(RULES) :
            \A k \in 1..Len(RULES[r][1]) : \E t \in toks : StartsWith(t, RULES[r][1][k])}

\* the rules of which some keyword, but not every keyword, is a prefix of a token
PartlySatisfied(name, metadata, text) ==
    LET toks == Tokens(name, metadata, text)
    IN  {r \in 1..Len(RULES) :
            /\ \E k \in 1..Len(RULES[r][1]) : \E t \in toks : StartsWith(t, RULES[r][1][k])
            /\ \E k \in 1..Len(RULES[r][1]) : \A t \in toks : ~StartsWith(t, RULES[r][1][k])}

\* C7: classify returns the result of the first rule, in declaration order,
\* whose keywords are all prefixes of tokens, and None when there is no such
\* rule (so a rule satisfied only in part is never returned); the tokens are
\* lower-case and hold no whitespace, "_" or "-".
C7_LegacyFirstFullMatch ==
    lpc = "done" =>
        LET full == FullySatisfied(lname, lmeta, ltext)
            toks == Tokens(lname, lmeta, ltext)
        IN  /\ IF full = {}
               THEN lresult = <<>>
               ELSE lresult = <<RULES[CHOOSE r \in full : \A q \in full : r <= q][2]>>
            /\ \A t \in toks :
                   /\ t /= ""
                   /\ t = Lower(t)
                   /\ \A i \in 1..Len(t) : CharAt(t, i) \notin Separators

\* a document that satisfies an earlier rule in part and a later rule in full
\* has been classified by the later rule
C7_Witness ==
    /\ lpc = "done"
    /\ lresult /= <<>>
    /\ \E r \in PartlySatisfied(lname, lmeta, ltext) :
           \A q \in FullySatisfied(lname, lmeta, ltext) : r < q

(***************************************************************************)
(* gui.py: the window.  A button handler, an after() callback and one turn  *)
(* of the loop of _poll_log_queue are steps of the UI thread; a worker      *)
(* thread takes one step per progress event and one when its pass returns.  *)
(* The UI thread runs one callback at a time: while it is inside the loop   *)
(* of _poll_log_queue no handler runs, the workers go on.                   *)
(***************************************************************************)
\* the buttons clicked in one session
MaxClicks == 3
\* the progress events one pass sends to its listener
MaxEvents == 2

\* how many startup entries _run_async queues for a stage (lines 364-388),
\* no drive being configured
StartupMessages(stage) ==
    CASE stage = "pass1" -> 3
      [] stage = "pass2" -> 4
      [] stage = "pass3" -> 2
      [] stage = "all" -> 3

\* a slip: the newest entry is handed out first
put_inFront(queue, entry) == <<entry>> \o queue

\* Queue.put on a Queue() without maxsize: the entry goes to the tail, and
\* put has nothing to wait for
put(queue, entry) == Append(queue, entry)

RECURSIVE queue_log(_, _, _)
\* _queue_log called k times in a row by one thread, n entries having been
\* put before
queue_log(queue, n, k) ==
    IF k = 0 THEN queue
    ELSE queue_log(put(queue, n + 1), n + 1, k - 1)

\* a slip: the prerequisite is not looked at
hasattr_unchecked(attribute) == TRUE

\* hasattr(self, "_pass_one_results"), hasattr(self, "_pass_two_results")
hasattr(attribute) == attribute /= <<>>

\* _run_async(func, stage=...) (lines 304-394): the startup entries, then a
\* thread is started
run_async(stage) ==
    /\ log_queue' = queue_log(log_queue, put_count, StartupMessages(stage))
    /\ put_count' = put_count + StartupMessages(stage)
    /\ workers' = Append(workers,
                         [stage |-> stage, running |-> TRUE, sent |-> 0,
                          \* self.pipeline, which func calls the pass on
                          pipeline |-> config,
                          \* the results func hands to the pass
                          input |-> CASE stage = "pass2" -> pass_one_results
                                      [] stage = "pass3" -> pass_two_results
                                      [] OTHER -> <<>>,
                          \* _pass_one_results when the thread was started
                          pass_one |-> pass_one_results])

\* a button is clicked while the UI thread is free
Clicked ==
    /\ clicks < MaxClicks
    /\ ~polling
    /\ clicks' = clicks + 1

\* how many entries _choose_config queues (lines 253-256)
ConfigMessages == 4

\* the button "Browse": _choose_config (lines 245-256).  With a file selected
\* the configuration is loaded and a pipeline is built for it; the results
\* kept from earlier runs are left as they are
ChooseConfig ==
    /\ Clicked
    /\ \E selected \in BOOLEAN :
          IF selected
          THEN /\ config' = config + 1
               /\ log_queue' = queue_log(log_queue, put_count, ConfigMessages)
               /\ put_count' = put_count + ConfigMessages
          ELSE UNCHANGED <<config, log_queue, put_count>>
    /\ UNCHANGED <<pass_one_results, pass_two_results, workers, after_calls, progress_output,
                   polling, dialogs>>
    /\ UNCHANGED notGuiVars

\* the button "Run Pass 1"
RunPassOne ==
    /\ Clicked
    /\ run_async("pass1")
    /\ UNCHANGED <<pass_one_results, pass_two_results, after_calls, progress_output,
                   polling, dialogs>>
    /\ UNCHANGED config
    /\ UNCHANGED notGuiVars

\* the button "Run Pass 2"
RunPassTwo ==
    /\ Clicked
    /\ IF ~hasattr(pass_one_results)
       THEN /\ dialogs' = Append(dialogs, "Run pass one first")
            /\ UNCHANGED <<workers, log_queue, put_count>>
       ELSE /\ run_async("pass2")
            /\ UNCHANGED dialogs
    /\ UNCHANGED <<pass_one_results, pass_two_results, after_calls, progress_output, polling>>
    /\ UNCHANGED config
    /\ UNCHANGED notGuiVars

\* the button "Run Pass 3"
RunPassThree ==
    /\ Clicked
    /\ IF ~hasattr(pass_two_results)
       THEN /\ dialogs' = Append(dialogs, "Run pass two first")
            /\ UNCHANGED <<workers, log_queue, put_count>>
       ELSE /\ run_async("pass3")
            /\ UNCHANGED dialogs
    /\ UNCHANGED <<pass_one_results, pass_two_results, after_calls, progress_output, polling>>
    /\ UNCHANGED config
    /\ UNCHANGED notGuiVars

\* the button "Run All"
RunAll ==
    /\ Clicked
    /\ run_async("all")
    /\ UNCHANGED <<pass_one_results, pass_two_results, after_calls, progress_output,
                   polling, dialogs>>
    /\ UNCHANGED config
    /\ UNCHANGED notGuiVars

\* the pass of worker w sends a progress event: _queue_progress builds the
\* entry and puts it on the queue (line 652), on the worker's thread
WorkerProgress(w) ==
    /\ workers[w].running
    /\ workers[w].sent < MaxEvents
    /\ log_queue' = queue_log(log_queue, put_count, 1)
    /\ put_count' = put_count + 1
    /\ workers' = [workers EXCEPT ![w].sent = @ + 1]
    /\ UNCHANGED <<clicks, pass_one_results, pass_two_results, after_calls,
                   progress_output, polling, dialogs>>
    /\ UNCHANGED config
    /\ UNCHANGED notGuiVars

\* func() of worker w returns or raises (lines 306-320, 359): the thread
\* schedules handle_success or handle_error and ends
WorkerReturn(w) ==
    /\ workers[w].running
    /\ \E kind \in {"success", "error"} :
          after_calls' = Append(after_calls, [kind |-> kind, worker |-> w])
    /\ workers' = [workers EXCEPT ![w].running = FALSE]
    /\ UNCHANGED <<clicks, pass_one_results, pass_two_results, log_queue, put_count,
                   progress_output, polling, dialogs>>
    /\ UNCHANGED config
    /\ UNCHANGED notGuiVars

\* handle_success (lines 322-357), run by the UI thread: the result of a
\* single pass is kept (the information boxes are not recorded)
HandleSuccess ==
    /\ ~polling
    /\ after_calls /= <<>>
    /\ Head(after_calls).kind = "success"
    /\ LET w == Head(after_calls).worker
           stage == workers[w].stage
       IN  /\ pass_one_results' = IF stage = "pass1" THEN <<w>> ELSE pass_one_results
           /\ pass_two_results' = IF stage = "pass2" THEN <<w>> ELSE pass_two_results
    /\ after_calls' = Tail(after_calls)
    /\ UNCHANGED <<clicks, workers, log_queue, put_count, progress_output, polling, dialogs>>
    /\ UNCHANGED config
    /\ UNCHANGED notGuiVars

\* handle_error (lines 311-317), run by the UI thread
HandleError ==
    /\ ~polling
    /\ after_calls /= <<>>
    /\ Head(after_calls).kind = "error"
    /\ after_calls' = Tail(after_calls)
    /\ UNCHANGED <<clicks, pass_one_results, pass_two_results, workers, log_queue,
                   put_count, progress_output, polling, dialogs>>
    /\ UNCHANGED config
    /\ UNCHANGED notGuiVars

\* the timer of after(200, self._poll_log_queue) fires: _poll_log_queue starts
PollStart ==
    /\ ~polling
    /\ polling' = TRUE
    /\ UNCHANGED <<clicks, pass_one_results, pass_two_results, workers, after_calls,
                   log_queue, put_count, progress_output, dialogs>>
    /\ UNCHANGED config
    /\ UNCHANGED notGuiVars

\* one turn of the loop: get_nowait hands out the oldest entry, _append_log
\* writes it to the text widget
PollGet ==
    /\ polling
    /\ log_queue /= <<>>
    /\ progress_output' = Append(progress_output, Head(log_queue))
    /\ log_queue' = Tail(log_queue)
    /\ UNCHANGED <<clicks, pass_one_results, pass_two_results, workers, after_calls,
                   put_count, polling, dialogs>>
    /\ UNCHANGED config
    /\ UNCHANGED notGuiVars

\* get_nowait raises Empty: the loop ends and the next poll is scheduled
PollEmpty ==
    /\ polling
    /\ log_queue = <<>>
    /\ polling' = FALSE
    /\ UNCHANGED <<clicks, pass_one_results, pass_two_results, workers, after_calls,
                   log_queue, put_count, progress_output, dialogs>>
    /\ UNCHANGED config
    /\ UNCHANGED notGuiVars

GuiInit ==
    /\ LegacyIdle
    /\ PipeIdle
    /\ GuiIdle
    /\ ScanIdle
    /\ RulesIdle

\* a worker thread is scheduled
WorkerSends == \E w \in 1..Len(workers) : WorkerProgress(w)
WorkerEnds == \E w \in 1..Len(workers) : WorkerReturn(w)

(***************************************************************************)
(* The buttons, the workers and their results.  The progress events and    *)
(* the poll of the log queue read and write log_queue, put_count, sent,     *)
(* progress_output and polling only, which no handler reads, so they are    *)
(* left to the specification of the log queue.                              *)
(***************************************************************************)
GuiNext ==
    \/ ChooseConfig
    \/ RunPassOne \/ RunPassTwo \/ RunPassThree \/ RunAll
    \/ WorkerEnds
    \/ HandleSuccess \/ HandleError

SpecGui == GuiInit /\ [][GuiNext]_vars

(***************************************************************************)
(* The log queue: its producers (the startup entries of _run_async on the   *)
(* UI thread, the progress events of the workers of Run All) and its        *)
(* consumer.  A worker that has returned sends nothing more, as one that    *)
(* is not scheduled again.                                                  *)
(***************************************************************************)
LogNext ==
    \/ RunAll
    \/ WorkerSends
    \/ PollStart \/ PollGet \/ PollEmpty

SpecLog == GuiInit /\ [][LogNext]_vars

\* the Tk main loop runs a due timer callback, and the loop of
\* _poll_log_queue goes on until the queue is empty
SpecLogLive ==
    GuiInit /\ [][LogNext]_vars
    /\ WF_vars(PollStart) /\ WF_vars(PollGet) /\ WF_vars(PollEmpty)

(***************************************************************************)
(* Claims about the window.                                                 *)
(***************************************************************************)
\* no pass of the stage has returned yet
NoResultsOf(stage) ==
    \A w \in 1..Len(workers) : workers[w].stage = stage => workers[w].running

\* the handler showed the warning and did nothing else
RejectedWith(title) ==
    /\ dialogs' = Append(dialogs, title)
    /\ workers' = workers
    /\ after_calls' = after_calls
    /\ log_queue' = log_queue
    /\ pass_one_results' = pass_one_results
    /\ pass_two_results' = pass_two_results

\* C15: a click on Run Pass 2 while no pass 1 has returned, or on Run Pass 3
\* while no pass 2 has returned, shows a warning at once and starts no thread,
\* runs no pass and produces no result.
C15_LaterPassWithoutPrerequisiteRejected ==
    [][/\ (RunPassTwo /\ NoResultsOf("pass1")) => RejectedWith("Run pass one first")
       /\ (RunPassThree /\ NoResultsOf("pass2")) => RejectedWith("Run pass two first")]_vars

\* both warnings were shown and neither a pass 1 nor a pass 2 has returned
C15_Witness ==
    /\ NoResultsOf("pass1")
    /\ NoResultsOf("pass2")
    /\ \E i, j \in 1..Len(dialogs) :
          dialogs[i] = "Run pass one first" /\ dialogs[j] = "Run pass two first"
    /\ \A w \in 1..Len(workers) : workers[w].stage \notin {"pass2", "pass3"}

\* C28: pass 2 only ever analyses a pass 1 output found under the
\* configuration loaded when pass 2 is run, and pass 3 only ever reports a
\* pass 2 output that was made, under that configuration, from the pass 1
\* output that is the most recent when pass 3 is run
C28_NoStaleResultsUsed ==
    \A w \in 1..Len(workers) :
        /\ (workers[w].stage = "pass2" /\ workers[w].input /= <<>>) =>
              workers[workers[w].input[1]].pipeline = workers[w].pipeline
        /\ (workers[w].stage = "pass3" /\ workers[w].input /= <<>>) =>
              /\ workers[workers[w].input[1]].pipeline = workers[w].pipeline
              /\ workers[workers[w].input[1]].input = workers[w].pass_one

\* C16: at any time at most one worker thread is executing a pass.
C16_AtMostOneWorker ==
    Cardinality({w \in 1..Len(workers) : workers[w].running}) <= 1

\* the entries put so far, in the order of the puts
Enqueued == [n \in 1..put_count |-> n]

\* the most entries one session puts on the queue
MostPuts == MaxClicks * (StartupMessages("all") + MaxEvents)

search_roots == <<"/home/u/dossier", "/Volumes/archive">>

\* an entry root.rglob("*") comes to: its path, whether it is a regular file,
\* and the directory below the root it lies in ("" when it lies in the root)
Entry(path, is_file, dir) == [path |-> path, is_file |-> is_file, dir |-> dir]

\* what lies below each search root, in the order rglob comes to it
Walks == <<
    << Entry("/home/u/dossier/courses", FALSE, ""),
       Entry("/home/u/dossier/courses/syllabus_fall.pdf", TRUE, "/home/u/dossier/courses"),
       Entry("/home/u/dossier/private", FALSE, ""),
       Entry("/home/u/dossier/private/review.docx", TRUE, "/home/u/dossier/private"),
       Entry("/home/u/dossier/service_log.docx", TRUE, ""),
       Entry("/home/u/dossier/photo.png", TRUE, "") >>,
    << Entry("/Volumes/archive/recital.txt", TRUE, ""),
       Entry("/Volumes/archive/.git", FALSE, ""),
       Entry("/Volumes/archive/.git/notes.txt", TRUE, "/Volumes/archive/.git") >>
>>

\* the directories below the search roots
Directories ==
    UNION {{Walks[r][k].path : k \in {j \in 1..Len(Walks[r]) : ~Walks[r][j].is_file}} :
              r \in 1..Len(Walks)}

DirStatuses == {"ok", "unlistable", "unsearchable", "raises"}

\* should_scan_path and should_process_file of each entry, tabulated
WalkPasses ==
    [r \in 1..Len(Walks) |->
        [k \in 1..Len(Walks[r]) |->
            should_scan_path(Walks[r][k].path) /\ should_process_file(Walks[r][k].path)]]

\* the status of the directory an entry lies in
StatusAround(status, e) == IF e.dir = "" THEN "ok" ELSE status[e.dir]

\* _iter_files(root) (lines 562-567): what root.rglob("*") yields.  rglob
\* passes over a directory it cannot list; when it raises PermissionError the
\* generator returns, so the walk of the root ends there.
iter_files(status, r) ==
    LET walk == Walks[r]
        stops == {k \in 1..Len(walk) : ~walk[k].is_file /\ status[walk[k].path] = "raises"}
        last == IF stops = {} THEN Len(walk)
                ELSE (CHOOSE k \in stops : \A j \in stops : k <= j) - 1
    IN  SelectSeq([k \in 1..last |-> k],
                  LAMBDA k : StatusAround(status, walk[k]) /= "unlistable")

\* the local artifact of an entry
LocalArtifact(e) == [path |-> e.path, is_gdrive |-> FALSE, item |-> ""]

RECURSIVE ScanEntries(_, _, _, _, _)
\* the body of the loop over _iter_files(root) (lines 181-198), from the i-th
\* yielded entry on.  path.is_file() stats the path: where the stat is denied
\* it raises PermissionError, or returns False (raises tells which).
ScanEntries(status, r, yielded, i, raises) ==
    IF i > Len(yielded) THEN [raised |-> None, artifacts |-> <<>>]
    ELSE LET k == yielded[i]
             e == Walks[r][k]
             rest == ScanEntries(status, r, yielded, i + 1, raises)
         IN  IF StatusAround(status, e) = "unsearchable"
             THEN IF raises THEN [raised |-> "PermissionError", artifacts |-> <<>>]
                  ELSE rest
             ELSE IF e.is_file /\ WalkPasses[r][k]
                  THEN [raised |-> rest.raised,
                        artifacts |-> <<LocalArtifact(e)>> \o rest.artifacts]
                  ELSE rest

\* one turn of the loop over config.search_roots (lines 177-198)
ScanRoot ==
    /\ spc = "roots"
    /\ IF ~root_exists[spos]
       THEN UNCHANGED <<found, sraised>>
            /\ IF spos < Len(search_roots)
               THEN spos' = spos + 1 /\ UNCHANGED spc
               ELSE spos' = 1 /\ spc' = "drives"
       ELSE \E raises \in BOOLEAN :
               LET r == ScanEntries(dir_status, spos, iter_files(dir_status, spos), 1, raises)
               IN  IF r.raised /= None
                   THEN /\ sraised' = r.raised
                        /\ spc' = "raised"
                        /\ UNCHANGED <<found, spos>>
                   ELSE /\ found' = found \o r.artifacts
                        /\ UNCHANGED sraised
                        /\ IF spos < Len(search_roots)
                           THEN spos' = spos + 1 /\ UNCHANGED spc
                           ELSE spos' = 1 /\ spc' = "drives"
    /\ UNCHANGED <<root_exists, dir_status, drive_enabled, fetch_fails, recursive>>
    /\ UNCHANGED notScanVars

\* the files().list page size of the checked runs
PageSize == 2

\* GDriveFile.is_supported_document: the allow-list
supported_types == {
    "application/pdf",
    "application/vnd.openxmlformats-officedocument.wordprocessingml.document",
    "application/vnd.openxmlformats-officedocument.presentationml.presentation",
    "application/msword",
    "text/plain",
    "application/vnd.google-apps.document",
    "application/vnd.google-apps.presentation",
    "application/vnd.google-apps.spreadsheet" }

FolderType == "application/vnd.google-apps.folder"

\* config.google_drives: one drive searched below a folder, one as a whole
google_drives == <<
    [name |-> "work", folder_id |-> "fw"],
    [name |-> "personal", folder_id |-> None]
>>

Item(drive, id, name, mime, parent) ==
    [drive |-> drive, id |-> id, name |-> name, mimeType |-> mime, parent |-> parent]

\* what the drives hold (not trashed), in the order files().list returns it
DriveItems == <<
    Item("work", "w1", "Journal Article.pdf", "application/pdf", "fw"),
    Item("work", "w2", "drafts", FolderType, "fw"),
    Item("work", "w3", "poster.png", "image/png", "fw"),
    Item("work", "w4", "untitled", "application/vnd.google-apps.document", "w2"),
    Item("work", "w5", "Recital Slides", "application/vnd.google-apps.presentation", "fw"),
    Item("personal", "p1", "Budget.xlsx",
         "application/vnd.openxmlformats-officedocument.spreadsheetml.sheet", "root"),
    Item("personal", "p2", "letters", FolderType, "root"),
    Item("personal", "p3", "Reference Letter.docx",
         "application/vnd.openxmlformats-officedocument.wordprocessingml.document", "p2")
>>

\* the result of the query of list_files (lines 176-180): "trashed = false",
\* and "'<folder_id>' in parents" when a folder is given
Listing(drive, folder_id) ==
    SelectSeq(DriveItems,
              LAMBDA it : it.drive = drive /\ (folder_id = None \/ it.parent = folder_id))

\* how many pages the result comes in: a next page token as long as items are left
NumPages(listing) ==
    IF Len(listing) = 0 THEN 1 ELSE (Len(listing) + PageSize - 1) \div PageSize

\* results.get('files', []) of page p
Page(listing, p) ==
    SubSeq(listing, (p - 1) * PageSize + 1, Min(p * PageSize, Len(listing)))

\* a slip: everything listed counts as a document
is_supported_document_any(mimeType) == TRUE

\* GDriveFile.is_supported_document
is_supported_document(mimeType) == mimeType \in supported_types

RECURSIVE list_files_from(_, _, _, _, _, _)
\* GoogleDriveManager.list_files(drive_name, folder_id, recursive), from item k
\* of page p on: the GDriveFiles it yields.  A page fetch that raises ends
\* this call of list_files (the except clause of lines 227-228); the caller,
\* be it the loop over a parent folder, goes on.
list_files_from(fails, drive, folder_id, rec, p, k) ==
    LET listing == Listing(drive, folder_id)
        items == Page(listing, p)
    IN  IF <<drive, folder_id, p>> \in fails THEN <<>>
        ELSE IF k > Len(items)
        THEN IF p < NumPages(listing)
             THEN list_files_from(fails, drive, folder_id, rec, p + 1, 1)
             ELSE <<>>
        ELSE (IF rec /\ items[k].mimeType = FolderType
              THEN list_files_from(fails, drive, items[k].id, TRUE, 1, 1)
              ELSE IF is_supported_document(items[k].mimeType) THEN <<items[k]>>
              ELSE <<>>)
             \o list_files_from(fails, drive, folder_id, rec, p, k + 1)

\* a slip: the files are collected and handed over only when no fetch failed
list_files_collected(fails, drive, folder_id, rec) ==
    IF \E f \in fails : f[1] = drive THEN <<>>
    ELSE list_files_from(fails, drive, folder_id, rec, 1, 1)

list_files(fails, drive, folder_id, rec) == list_files_from(fails, drive, folder_id, rec, 1, 1)

\* the artifact pass 1 makes of a GDriveFile (lines 228-232)
RemoteArtifact(it) ==
    [path |-> "gdrive://" \o it.drive \o "/" \o it.name, is_gdrive |-> TRUE, item |-> it.id]

\* one turn of the loop over config.google_drives (lines 202-235)
ScanDrive ==
    /\ spc = "drives"
    /\ IF ~drive_enabled[spos]
       THEN UNCHANGED found
       ELSE LET files == list_files(fetch_fails, google_drives[spos].name,
                                    google_drives[spos].folder_id, recursive)
            IN  found' = found \o [i \in 1..Len(files) |-> RemoteArtifact(files[i])]
    /\ IF spos < Len(google_drives)
       THEN spos' = spos + 1 /\ UNCHANGED spc
       ELSE spos' = 0 /\ spc' = "return"
    /\ UNCHANGED <<root_exists, dir_status, drive_enabled, fetch_fails, recursive, sraised>>
    /\ UNCHANGED notScanVars

\* years is None: the summary event, then return artifacts (lines 258-267)
ScanReturn ==
    /\ spc = "return"
    /\ spc' = "done"
    /\ UNCHANGED <<spos, root_exists, dir_status, drive_enabled, fetch_fails, recursive,
                   found, sraised>>
    /\ UNCHANGED notScanVars

\* the folders list_files can be asked for in a drive
FoldersOf(d) ==
    {google_drives[d].folder_id} \cup
    {DriveItems[i].id : i \in {j \in 1..Len(DriveItems) :
                                  /\ DriveItems[j].drive = google_drives[d].name
                                  /\ DriveItems[j].mimeType = FolderType}}

\* the page fetches of a whole enumeration
Fetches ==
    UNION {UNION {{<<google_drives[d].name, f, p>> :
                      p \in 1..NumPages(Listing(google_drives[d].name, f))} :
                  f \in FoldersOf(d)} :
           d \in 1..Len(google_drives)}

\* pass_one_surface_scan is called: what exists, what is denied, which drives
\* are enabled, and which page fetch, if any, fails.  Pass 1 calls list_files
\* with recursive=True; list_files is taken with recursive=False as well.
ScanInit ==
    /\ LegacyIdle
    /\ PipeIdle
    /\ GuiIdle
    /\ RulesIdle
    /\ spc = "roots"
    /\ spos = 1
    /\ root_exists \in [1..Len(search_roots) -> BOOLEAN]
    /\ dir_status \in [Directories -> DirStatuses]
    /\ drive_enabled \in [1..Len(google_drives) -> BOOLEAN]
    /\ fetch_fails \in {{}} \cup {{f} : f \in Fetches}
    /\ recursive \in BOOLEAN
    /\ found = <<>>
    /\ sraised = None

ScanNext == ScanRoot \/ ScanDrive \/ ScanReturn

SpecScan == ScanInit /\ [][ScanNext]_vars

\* ---- what an enumeration owes, read off the file trees and the drives ----

\* the paths of the artifacts found
FoundPaths == {found[i].path : i \in 1..Len(found)}

\* the local candidates of root r that no denied directory stands in front of
Accessible(r) ==
    {Walks[r][k].path : k \in {j \in 1..Len(Walks[r]) :
        /\ Walks[r][j].is_file
        /\ WalkPasses[r][j]
        /\ StatusAround(dir_status, Walks[r][j]) = "ok"}}

\* the local candidates of all roots that exist
LocalCandidates == UNION {Accessible(r) : r \in {q \in 1..Len(search_roots) : root_exists[q]}}

\* the folder an item lies in, and the folders above it
RECURSIVE Above(_, _)
Above(drive, id) ==
    LET here == {i \in 1..Len(DriveItems) :
                    DriveItems[i].drive = drive /\ DriveItems[i].id = id}
    IN  IF here = {} THEN {}
        ELSE LET parent == DriveItems[CHOOSE i \in here : TRUE].parent
             IN  {parent} \cup Above(drive, parent)

\* the documents of the d-th configured drive: below its folder, or anywhere
\* in the drive when no folder is configured
RemoteCandidates(d) ==
    {"gdrive://" \o DriveItems[i].drive \o "/" \o DriveItems[i].name :
        i \in {j \in 1..Len(DriveItems) :
            /\ DriveItems[j].drive = google_drives[d].name
            /\ DriveItems[j].mimeType \in supported_types
            /\ \/ google_drives[d].folder_id = None
               \/ google_drives[d].folder_id \in Above(DriveItems[j].drive, DriveItems[j].id)}}

\* C18: when a local search root is missing or a local subtree is denied
\* during the walk, pass 1 raises nothing and returns the accessible local
\* candidates of every existing root and the documents of every enabled drive
C18_LocalFailureKeepsOtherCandidates ==
    /\ sraised = None
    /\ (spc = "done" /\ fetch_fails = {} /\ recursive) =>
          /\ LocalCandidates \subseteq FoundPaths
          /\ \A d \in 1..Len(google_drives) :
                drive_enabled[d] => RemoteCandidates(d) \subseteq FoundPaths

\* the drive whose listing has a failing page fetch
FailingDrives == {f[1] : f \in fetch_fails}

\* the documents the listing of the d-th drive has come to before the fetch f
\* fails: those of the pages before the failing page of the drive's own
\* listing, or those listed in front of the folder whose listing fails
FoundBefore(d, f) ==
    LET top == Listing(google_drives[d].name, google_drives[d].folder_id)
        at == {k \in 1..Len(top) : top[k].id = f[2]}
        cutoff == IF f[2] = google_drives[d].folder_id THEN (f[3] - 1) * PageSize + 1
                  ELSE IF at = {} THEN 1
                  ELSE CHOOSE k \in at : TRUE
    IN  {"gdrive://" \o top[k].drive \o "/" \o top[k].name :
            k \in {j \in 1..Len(top) : j < cutoff /\ top[j].mimeType \in supported_types}}

\* C19: when a page fetch of one drive's listing fails, pass 1 goes on and
\* returns; every other enabled drive is enumerated in full; a drive's turn
\* only adds to the candidates found so far, local and remote; and the
\* documents the failing listing had come to before the failure are kept
C19_FailedFetchKeepsOtherSources ==
    /\ []((fetch_fails /= {} /\ spc \in {"drives", "return"}) =>
             (sraised = None /\ ENABLED ScanNext))
    /\ []((fetch_fails /= {} /\ spc = "done" /\ recursive) =>
             \A d \in 1..Len(google_drives) :
                drive_enabled[d] =>
                   IF google_drives[d].name \in FailingDrives
                   THEN \A f \in fetch_fails : FoundBefore(d, f) \subseteq FoundPaths
                   ELSE RemoteCandidates(d) \subseteq FoundPaths)
    /\ [][ScanDrive => (Len(found') >= Len(found)
                        /\ SubSeq(found', 1, Len(found)) = found)]_vars

\* the second page of the work drive's listing failed; the first page's
\* document, the other drive's documents and the local candidates are returned
C19_Witness ==
    /\ spc = "done"
    /\ recursive
    /\ fetch_fails = {<<"work", "fw", 2>>}
    /\ \A d \in 1..Len(google_drives) : drive_enabled[d]
    /\ "gdrive://work/Journal Article.pdf" \in FoundPaths
    /\ "gdrive://personal/Reference Letter.docx" \in FoundPaths
    /\ \E i \in 1..Len(found) : ~found[i].is_gdrive

\* the drive item an artifact refers to
ItemOf(a) == DriveItems[CHOOSE i \in 1..Len(DriveItems) : DriveItems[i].id = a.item]

\* C20: a remote candidate has a declared type of the supported-document
\* allow-list and is never a folder, whether list_files recurses or not
C20_RemoteCandidatesAreSupportedDocuments ==
    \A i \in 1..Len(found) :
        found[i].is_gdrive =>
            /\ ItemOf(found[i]).mimeType \in supported_types
            /\ ItemOf(found[i]).mimeType /= FolderType

\* without recursion the work drive's listing holds a folder and an image
\* beside its documents, and only the documents were returned
C20_Witness ==
    /\ spc = "done"
    /\ ~recursive
    /\ fetch_fails = {}
    /\ drive_enabled[1]
    /\ \E k \in 1..Len(Listing("work", "fw")) : Listing("work", "fw")[k].mimeType = FolderType
    /\ \E i \in 1..Len(found) : found[i].is_gdrive /\ ItemOf(found[i]).drive = "work"

\* the ids of the documents of the d-th configured drive: the supported items
\* below its folder, or anywhere in the drive when no folder is configured
ReachableDocuments(d) ==
    {DriveItems[i].id :
        i \in {j \in 1..Len(DriveItems) :
            /\ DriveItems[j].drive = google_drives[d].name
            /\ DriveItems[j].mimeType \in supported_types
            /\ \/ google_drives[d].folder_id = None
               \/ google_drives[d].folder_id \in Above(DriveItems[j].drive, DriveItems[j].id)}}

\* how often the item is among the candidates found
TimesFound(id) == Cardinality({i \in 1..Len(found) : found[i].is_gdrive /\ found[i].item = id})

\* C30: with no listing failure, recursive list_files comes to an end and has
\* yielded every supported item reachable from the root scope of every
\* enabled drive exactly once
C30_RecursiveListingYieldsEachDocumentOnce ==
    (spc = "done" /\ fetch_fails = {} /\ recursive) =>
        \A d \in 1..Len(google_drives) :
            drive_enabled[d] => \A id \in ReachableDocuments(d) : TimesFound(id) = 1

(***************************************************************************)
(* config.py: classify_text under a rule set, and under the rule set with   *)
(* one more pattern in one of its rules.                                    *)
(***************************************************************************)
\* AppConfig.classify_text(text, filename) of a configuration with these categories
classify_text_under(categories, text, filename) ==
    LET full_text == FullText(text, filename)
        all == [c \in 1..Len(categories) |->
                   [name |-> categories[c].name, subs |-> MatchedSubs(categories[c], full_text)]]
    IN  SelectSeq(all, LAMBDA e : Len(e.subs) > 0)

\* the patterns a rule is extended with
ExtraPatterns == {"zzz", "tenure", "Syllabus", "HOMEWORK", "peer review"}

\* CategoryRule(name, patterns + [pattern]) in the place of rule r of category c
with_pattern(categories, c, r, pattern) ==
    [categories EXCEPT ![c].subs[r].patterns = Append(@, pattern)]

\* a configuration, a document, and the pattern that will be added
RulesInit ==
    /\ LegacyIdle
    /\ PipeIdle
    /\ GuiIdle
    /\ ScanIdle
    /\ rpc = "input"
    /\ rules = Categories
    /\ rdoc \in 1..Len(Docs)
    /\ \E c \in 1..Len(Categories) : \E r \in 1..Len(Categories[c].subs) :
          \E pattern \in ExtraPatterns :
             radded = [cat |-> c, sub |-> r, pattern |-> pattern]
    /\ rresults = <<>>

\* classify_text(text, str(path)) under the current rules
ClassifyText ==
    /\ rpc \in {"input", "extended"}
    /\ rresults' = Append(rresults,
                          classify_text_under(rules, Docs[rdoc].text, Docs[rdoc].path))
    /\ rpc' = IF rpc = "input" THEN "classified" ELSE "done"
    /\ UNCHANGED <<rules, rdoc, radded>>
    /\ UNCHANGED notRulesVars

\* the configuration is loaded again with the pattern added to the rule
AddPattern ==
    /\ rpc = "classified"
    /\ rules' = with_pattern(rules, radded.cat, radded.sub, radded.pattern)
    /\ rpc' = "extended"
    /\ UNCHANGED <<rdoc, radded, rresults>>
    /\ UNCHANGED notRulesVars

RulesNext == ClassifyText \/ AddPattern

SpecRules == RulesInit /\ [][RulesNext]_vars

\* the pattern is found in the text-plus-filename string of the document
PatternFound(pattern) ==
    Contains(Lower(Docs[rdoc].text \o " " \o Docs[rdoc].path), Lower(pattern))

\* the subcategory of rule r of category c is in the classification result
InResult(res, c, r) ==
    \E e \in 1..Len(res) :
        /\ res[e].name = rules[c].name
        /\ \E k \in 1..Len(res[e].subs) : res[e].subs[k] = rules[c].subs[r].name

\* C25: a subcategory is in the result if and only if at least one of the
\* patterns of its rule is found in the text-plus-filename string; adding a
\* pattern that is not found to a rule changes nothing in the result
C25_AnyPatternMatchesAndExtraPatternIsNeutral ==
    /\ rpc \in {"classified", "done"} =>
          \A c \in 1..Len(rules) : \A r \in 1..Len(rules[c].subs) :
              InResult(rresults[Len(rresults)], c, r)
                 <=> \E p \in 1..Len(rules[c].subs[r].patterns) :
                        PatternFound(rules[c].subs[r].patterns[p])
    /\ (rpc = "done" /\ ~PatternFound(radded.pattern)) => rresults[2] = rresults[1]

\* a pattern that is not found was added to a rule that matched, and the
\* subcategory is still in the result
C25_Witness ==
    /\ rpc = "done"
    /\ ~PatternFound(radded.pattern)
    /\ InResult(rresults[1], radded.cat, radded.sub)
    /\ InResult(rresults[2], radded.cat, radded.sub)

====
